---- MODULE Spec2Model ----
(***************************************************************************)
(* Model of the enclave's contract lifecycle entry points                  *)
(* (contract-engine/src/contract_operations.rs: init, migrate,             *)
(* update_admin, handle, query) and of the types they dispatch on          *)
(* (cosmos-types/src/types.rs).                                            *)
(*                                                                         *)
(* One enclave call is one action: the action evaluates the whole handler  *)
(* on the call's inputs and leaves the outcome in `last`.  The node that   *)
(* invoked the enclave then takes the result (action NodeReturn) and       *)
(* persists a returned contract key in `store`.  In Spec and SpecChain the *)
(* collaborators of a handler (engine, crypto, validation, the message     *)
(* counter of crate::random) appear as the steps the call executed.        *)
(*                                                                         *)
(* SpecRandom follows the message counter itself: the node runs calls on   *)
(* several threads, and each thread executes the counter steps of its call *)
(* (set_random_in_env, update_msg_counter) one at a time.                  *)
(*                                                                         *)
(* SpecTx applies the functions that compute a value from their arguments  *)
(* alone: the conversions of types.rs (DirectSdkMsg, TxBody, SignDoc and    *)
(* AuthInfo ::from_bytes, HandleType::try_from and the accessors of their   *)
(* results) and set_random_in_env.                                          *)
(***************************************************************************)
EXTENDS Integers, Sequences, FiniteSets, TLC

VARIABLES
    store,      \* node key-value store: contract address -> keys returned by the enclave, oldest first
    last,       \* the enclave call that has just returned (inputs, trace, result); NoCall when idle
    pc,         \* "idle": node may invoke the enclave; "returned": a call has returned to the node
    msg_counter, \* process-wide per-block message counter: [height, counter]
    threads,    \* per thread: the call in progress and the counter steps it still has to run
    tx          \* the arguments last handed to a function of SpecTx, and what it returned

vars == <<store, last, pc, msg_counter, threads, tx>>

----------------------------------------------------------------------------
(* Bounds *)

\* total number of contract keys the node persists in one behaviour of Spec
MaxKeys == 1
\* total number of contract keys the node persists in one behaviour of SpecChain
MaxChain == 2
\* number of distinct contract codes (wasm byte strings)
MaxCode == 1
\* largest handle_type byte the node passes (the recognized ones are 0..10)
MaxHandleByte == 11
\* largest value the per-block message counter takes
MaxCount == 2
\* number of threads on which the node invokes the enclave concurrently
MaxThreads == 2
\* messages in a transaction body
MaxMsgs == 2
\* gas an engine reports as used or refunds
MaxGas == 2
\* signers of a transaction
MaxSigners == 2

----------------------------------------------------------------------------
(* Addresses *)

\* bech32 strings that appear in the `env` JSON; "bad" is not valid bech32
HumanAddrs == {"secret1c1", "secret1c2", "secret1u1", "secret1u2", "bad"}

\* result of a failed conversion
AddrErr == -1

\* CanonicalAddr::from_vec(vec![]): the empty canonical address
EmptyCanonical == 0

\* CanonicalAddr::from_human via to_canonical: bech32 decoding
to_canonical(h) ==
    CASE h = "secret1c1" -> 1
      [] h = "secret1c2" -> 2
      [] h = "secret1u1" -> 3
      [] h = "secret1u2" -> 4
      [] OTHER -> AddrErr

\* HumanAddr::from_canonical: bech32 encoding; "" stands for Err
from_canonical(c) ==
    CASE c = 1 -> "secret1c1"
      [] c = 2 -> "secret1c2"
      [] c = 3 -> "secret1u1"
      [] c = 4 -> "secret1u2"
      [] OTHER -> ""

\* raw canonical address bytes the node can pass as admin / current_admin / new_admin
AdminBytes == {EmptyCanonical, 3, 4}

----------------------------------------------------------------------------
(* Static tables *)

\* HARDCODED_CONTRACT_ADMINS: contract (human) -> admin (human)
HARDCODED_CONTRACT_ADMINS == [c \in {"secret1c1"} |-> "secret1u1"]

\* ALLOWED_CONTRACT_CODE_HASH: contract (human) -> legacy code hash
ALLOWED_CONTRACT_CODE_HASH == [c \in {"secret1c1"} |-> 101]

----------------------------------------------------------------------------
(* Hashes, keys and proofs *)

\* enclave_crypto::HASH_SIZE
HASH_SIZE == 32

\* calc_contract_hash: sha_256 of the code bytes (codes are 1..MaxCode)
calc_contract_hash(code) == 100 + code

Codes == 1..MaxCode

\* no contract key (None / absent from env)
NoKey == <<>>

\* generate_contract_key: keyed hash of the inputs; pred = NoKey stands for None
generate_contract_key(sender, block_height, code_hash, contract_address, pred) ==
    <<sender, block_height, code_hash, contract_address, pred>>

\* generate_admin_proof: one-way commitment of (address, contract key)
generate_admin_proof(addr, key) == <<"admin", HASH_SIZE, addr, key>>

\* generate_contract_key_proof: commitment of a migration old key -> new key
generate_contract_key_proof(addr, code_hash, old_key, new_key) ==
    <<"migration", HASH_SIZE, addr, old_key, new_key, code_hash>>

\* n zero bytes; ZeroProof(HASH_SIZE) is the sentinel [0; HASH_SIZE]
ZeroProof(n) == <<"zeros", n, EmptyCanonical, NoKey>>

\* admin_proof != [0; HASH_SIZE]  (slice/array comparison: length and content)
IsZeroSentinel(admin_proof) == admin_proof = ZeroProof(HASH_SIZE)

\* variant: the allow-list is consulted whatever the proof bytes are
is_hardcoded_contract_admin_AnyProof(contract, admin, admin_proof) ==
    LET c == from_canonical(contract)
        a == from_canonical(admin)
    IN  IF c = "" THEN FALSE
        ELSE IF a = "" THEN FALSE
        ELSE c \in DOMAIN HARDCODED_CONTRACT_ADMINS /\ HARDCODED_CONTRACT_ADMINS[c] = a

\* variant: the sentinel comparison is inverted
is_hardcoded_contract_admin_Inverted(contract, admin, admin_proof) ==
    IF IsZeroSentinel(admin_proof) THEN FALSE
    ELSE LET c == from_canonical(contract)
             a == from_canonical(admin)
         IN  IF c = "" THEN FALSE
             ELSE IF a = "" THEN FALSE
             ELSE c \in DOMAIN HARDCODED_CONTRACT_ADMINS /\ HARDCODED_CONTRACT_ADMINS[c] = a

\* is_hardcoded_contract_admin(contract, admin, admin_proof)
is_hardcoded_contract_admin(contract, admin, admin_proof) ==
    IF ~IsZeroSentinel(admin_proof) THEN FALSE
    ELSE LET c == from_canonical(contract)
             a == from_canonical(admin)
         IN  IF c = "" THEN FALSE
             ELSE IF a = "" THEN FALSE
             ELSE c \in DOMAIN HARDCODED_CONTRACT_ADMINS /\ HARDCODED_CONTRACT_ADMINS[c] = a

\* variant: a listed contract is allowed whatever the code hash is
is_code_hash_allowed_AnyHash(contract_address, code_hash) ==
    LET c == from_canonical(contract_address)
    IN  IF c = "" THEN FALSE
        ELSE c \in DOMAIN ALLOWED_CONTRACT_CODE_HASH

\* is_code_hash_allowed(contract_address, code_hash)
is_code_hash_allowed(contract_address, code_hash) ==
    LET c == from_canonical(contract_address)
    IN  IF c = "" THEN FALSE
        ELSE c \in DOMAIN ALLOWED_CONTRACT_CODE_HASH /\ ALLOWED_CONTRACT_CODE_HASH[c] = code_hash

----------------------------------------------------------------------------
(* Handle types *)

\* enum HandleType, indexed by discriminant + 1
HandleType ==
    << "HANDLE_TYPE_EXECUTE",
       "HANDLE_TYPE_REPLY",
       "HANDLE_TYPE_IBC_CHANNEL_OPEN",
       "HANDLE_TYPE_IBC_CHANNEL_CONNECT",
       "HANDLE_TYPE_IBC_CHANNEL_CLOSE",
       "HANDLE_TYPE_IBC_PACKET_RECEIVE",
       "HANDLE_TYPE_IBC_PACKET_ACK",
       "HANDLE_TYPE_IBC_PACKET_TIMEOUT",
       "HANDLE_TYPE_IBC_WASM_HOOKS_INCOMING_TRANSFER",
       "HANDLE_TYPE_IBC_WASM_HOOKS_OUTGOING_TRANSFER_ACK",
       "HANDLE_TYPE_IBC_WASM_HOOKS_OUTGOING_TRANSFER_TIMEOUT" >>

\* the variants of HandleType
HandleTypeVariants == {HandleType[i] : i \in 1..Len(HandleType)}

\* Err(EnclaveError::FailedToDeserialize) of HandleType::try_from
HandleTypeErr == "Err"

\* variant: the last kind is not recognized
try_from_NineKinds(value) ==
    IF value \in 0..9 THEN HandleType[value + 1] ELSE HandleTypeErr

\* HandleType::try_from(value: u8)
try_from(value) ==
    CASE value = 0 -> "HANDLE_TYPE_EXECUTE"
      [] value = 1 -> "HANDLE_TYPE_REPLY"
      [] value = 2 -> "HANDLE_TYPE_IBC_CHANNEL_OPEN"
      [] value = 3 -> "HANDLE_TYPE_IBC_CHANNEL_CONNECT"
      [] value = 4 -> "HANDLE_TYPE_IBC_CHANNEL_CLOSE"
      [] value = 5 -> "HANDLE_TYPE_IBC_PACKET_RECEIVE"
      [] value = 6 -> "HANDLE_TYPE_IBC_PACKET_ACK"
      [] value = 7 -> "HANDLE_TYPE_IBC_PACKET_TIMEOUT"
      [] value = 8 -> "HANDLE_TYPE_IBC_WASM_HOOKS_INCOMING_TRANSFER"
      [] value = 9 -> "HANDLE_TYPE_IBC_WASM_HOOKS_OUTGOING_TRANSFER_ACK"
      [] value = 10 -> "HANDLE_TYPE_IBC_WASM_HOOKS_OUTGOING_TRANSFER_TIMEOUT"
      [] OTHER -> HandleTypeErr

\* enum VerifyParamsType
VerifyParamsType_Init == <<"Init">>
VerifyParamsType_Migrate == <<"Migrate">>
VerifyParamsType_UpdateAdmin == <<"UpdateAdmin">>
VerifyParamsType_HandleType(h) == <<"HandleType", h>>

\* no VerifyParamsType: verify_params was not invoked
NoKind == <<>>

----------------------------------------------------------------------------
(* Environment *)

\* contracts the node can hold a key for
Contracts == {"secret1c1", "secret1c2"}

\* latest key the node holds for a contract address, NoKey if none
StoredKey(st, contract) ==
    IF contract \in Contracts /\ Len(st[contract]) > 0
    THEN st[contract][Len(st[contract])]
    ELSE NoKey

\* the original key of a contract address: the one its init returned (init names
\* the key it generates og_contract_key and returns it as contract_key)
OriginalKey(st, contract) ==
    IF contract \in Contracts /\ Len(st[contract]) > 0
    THEN st[contract][1]
    ELSE NoKey

\* number of keys persisted so far
KeysStored(st) == Len(st["secret1c1"]) + Len(st["secret1c2"])

\* the block the node executes: the chain grows by one block with every key it persists
BlockHeight(st) == KeysStored(st) + 1

\* the `env` bytes the node passes: BaseEnv fields read by the handlers
BuildEnv(st, sender, contract) ==
    [ sender           |-> sender,
      contract_address |-> contract,
      block_height     |-> BlockHeight(st),
      og_contract_key      |-> OriginalKey(st, contract),
      current_contract_key |-> StoredKey(st, contract) ]

\* BaseEnv::get_og_contract_key; NoKey stands for Err
get_og_contract_key(env) == env.og_contract_key

\* BaseEnv::get_latest_contract_key; NoKey stands for Err
get_latest_contract_key(env) == env.current_contract_key

\* validate_contract_key(base_env, contract_address, contract_code): TRUE stands for Ok
validate_contract_key(env, canonical_contract_address, code) ==
    /\ env.og_contract_key # NoKey
    /\ env.current_contract_key[4] = canonical_contract_address
    /\ env.current_contract_key[3] = calc_contract_hash(code)

----------------------------------------------------------------------------
(* Stages of a call *)

\* `expr?`: one fallible step of a handler; the call ends at the first step that fails
Try(name, fails, err) == [name |-> name, fails |-> fails, err |-> err, caught |-> FALSE]

\* a step that cannot fail
Do(name) == [name |-> name, fails |-> FALSE, err |-> "", caught |-> FALSE]

\* `match expr { Ok(v) => v, Err(_) => default }`: a step whose failure is replaced
\* by a default value and does not end the call
Catch(name, fails) == [name |-> name, fails |-> FALSE, err |-> "", caught |-> fails]

\* index of the first failing stage, 0 if none fails
FirstFailure(stages) ==
    IF \E i \in 1..Len(stages) : stages[i].fails
    THEN CHOOSE i \in 1..Len(stages) :
            /\ stages[i].fails
            /\ \A j \in 1..(i - 1) : ~stages[j].fails
    ELSE 0

\* variant: the stages after a failing one are executed all the same
Run_KeepGoing(stages) ==
    LET f == FirstFailure(stages)
        n == Len(stages)
    IN  [ trace  |-> [i \in 1..n |-> stages[i].name],
          ok     |-> f = 0,
          err    |-> IF f = 0 THEN "" ELSE stages[f].err,
          failed |-> IF f = 0 THEN "" ELSE stages[f].name,
          swallowed |-> {stages[i].name : i \in {j \in 1..n : stages[j].caught}} ]

\* straight-line execution with early return: the stages executed, the outcome,
\* and the executed stages whose failure was replaced by a default
Run(stages) ==
    LET f == FirstFailure(stages)
        n == IF f = 0 THEN Len(stages) ELSE f
    IN  [ trace  |-> [i \in 1..n |-> stages[i].name],
          ok     |-> f = 0,
          err    |-> IF f = 0 THEN "" ELSE stages[f].err,
          failed |-> IF f = 0 THEN "" ELSE stages[f].name,
          swallowed |-> {stages[i].name : i \in {j \in 1..n : stages[j].caught}} ]

\* position of a stage in a trace, 0 if it was not executed
Pos(trace, name) ==
    IF \E i \in 1..Len(trace) : trace[i] = name
    THEN CHOOSE i \in 1..Len(trace) : trace[i] = name
    ELSE 0

\* the stage was executed
Reached(r, name) == Pos(r.trace, name) > 0

\* the stage was executed and returned Ok
Passed(r, name) == Reached(r, name) /\ r.failed # name

----------------------------------------------------------------------------
(* The per-block message counter (crate::random) *)

\* the counter before the first call
NoCounter == [height |-> 0, counter |-> 0]

\* update_msg_counter(block_height): restart at a new block height, else count the call
update_msg_counter(mc, block_height) ==
    IF mc.height = block_height
    THEN [mc EXCEPT !.counter = @ + 1]
    ELSE [height |-> block_height, counter |-> 1]

\* the counter value derive_random mixes into the randomness of a call at block_height
\* (a counter left over from another block counts as zero)
CounterRead(mc, block_height) == IF mc.height = block_height THEN mc.counter ELSE 0

----------------------------------------------------------------------------
(* Message parsing (message.rs) *)

\* parse_message(msg, handle_type): the ParsedMessage flags
parse_message(encrypted, handle_type) ==
    [ should_verify_sig_info |-> handle_type = "HANDLE_TYPE_EXECUTE",
      should_verify_input    |-> handle_type = "HANDLE_TYPE_EXECUTE",
      was_msg_encrypted      |-> encrypted,
      should_encrypt_output  |-> encrypted ]

\* parse_message fails on an Execute message that is not encrypted
parse_message_fails(encrypted, handle_type) ==
    handle_type = "HANDLE_TYPE_EXECUTE" /\ ~encrypted

----------------------------------------------------------------------------
(* Call inputs and collaborators *)

\* the collaborator named `name` fails in this call
F(in, name) == name \in in.faults

\* Option::None for an address argument of verify_params
NoneAddr == -2

\* arguments of one verify_params invocation
VerifyParamsArgs(sender, contract_address, verify_sig, verify_input, kind, admin, new_admin) ==
    [ called           |-> TRUE,
      sender           |-> sender,
      contract_address |-> contract_address,
      verify_sig       |-> verify_sig,
      verify_input     |-> verify_input,
      kind             |-> kind,
      admin            |-> admin,
      new_admin        |-> new_admin ]

\* verify_params was not invoked
NoVerifyParams ==
    [ called           |-> FALSE,
      sender           |-> AddrErr,
      contract_address |-> "",
      verify_sig       |-> FALSE,
      verify_input     |-> FALSE,
      kind             |-> NoKind,
      admin            |-> NoneAddr,
      new_admin        |-> NoneAddr ]

\* no proof in the result
NoProof == <<"none", 0, EmptyCanonical, NoKey>>

\* variant: the failed conversion is handed on as it is
HandleCanonicalSender_Raw(sender) == to_canonical(sender)

\* canonical_sender_address of handle: an unparsable sender becomes the empty address
HandleCanonicalSender(sender) ==
    IF to_canonical(sender) = AddrErr THEN EmptyCanonical ELSE to_canonical(sender)

\* contract_hash "" (no contract hash)
NoHash == 0

\* post_process_output was not called
NoPostProcess ==
    [ contract_address |-> AddrErr, contract_hash |-> NoHash, reply_params |-> "",
      sender |-> AddrErr, is_query_output |-> FALSE ]

\* variant: the output of a query is bound to the contract like any other output
PostProcessOutputArgs_QueryBound(in, env) ==
    [ contract_address |-> to_canonical(env.contract_address),
      contract_hash    |-> calc_contract_hash(in.code),
      reply_params     |-> "reply_params",
      sender           |-> to_canonical(env.sender),
      is_query_output  |-> in.op = "query" ]

\* the arguments of post_process_output: contract address, contract hash, reply
\* params ("reply_params": those of the message, "None": none), sender, is_query_output
PostProcessOutputArgs(in, env) ==
    IF in.op = "query"
    THEN [ contract_address |-> EmptyCanonical,
           contract_hash    |-> NoHash,
           reply_params     |-> "None",
           sender           |-> EmptyCanonical,
           is_query_output  |-> TRUE ]
    ELSE [ contract_address |-> to_canonical(env.contract_address),
           contract_hash    |-> calc_contract_hash(in.code),
           reply_params     |-> "reply_params",
           sender           |-> IF in.op = "handle" THEN HandleCanonicalSender(env.sender)
                                ELSE to_canonical(env.sender),
           is_query_output  |-> FALSE ]

\* variant: the block info of the env is rewritten as well
EngineEnvChanges_Block(in) == {"contract_hash", "block"}

\* the fields of versioned_env (the env handed to the engine) that the entry
\* point writes after converting the parsed BaseEnv: set_contract_hash in all
\* four, set_random (inside set_random_in_env) in init, migrate and handle,
\* set_msg_sender("") in handle for every kind but Execute
EngineEnvChanges(in) ==
    {"contract_hash"}
        \cup (IF in.op \in {"init", "migrate", "handle"} THEN {"random"} ELSE {})
        \cup (IF in.op = "handle" /\ try_from(in.handle_type) # "HANDLE_TYPE_EXECUTE"
              THEN {"msg_sender"} ELSE {})

\* variant: the engine always gets what validate_msg returns
EngineMsg_Validated(in) == "validated_msg"

\* the message handed to the engine: validate_msg's validated_msg; in handle
\* `validated_msg = decrypted_msg.clone()` stays as it is unless was_msg_encrypted
EngineMsg(in) ==
    IF in.op = "handle" /\ ~parse_message(in.encrypted, try_from(in.handle_type)).was_msg_encrypted
    THEN "decrypted_msg"
    ELSE "validated_msg"

\* the reply params of the call: those validate_msg returns; in handle
\* `reply_params = None` stays as it is unless was_msg_encrypted
ReplyParams(in) ==
    IF in.op = "handle" /\ ~parse_message(in.encrypted, try_from(in.handle_type)).was_msg_encrypted
    THEN "None"
    ELSE "reply_params"

\* variant: the refund is subtracted without saturation
saturating_sub_Plain(a, b) == a - b

\* u64::saturating_sub
saturating_sub(a, b) == IF a >= b THEN a - b ELSE 0

\* variant: used_gas is written after `result?`
UsedGasWrites_AfterResult(in, r) ==
    IF ~Passed(r, "engine_call") THEN << >>
    ELSE IF in.op = "handle" /\ Passed(r, "flush_cache") THEN << "gas_used", "saturating_sub" >>
    ELSE << "gas_used" >>

\* the assignments to *used_gas a call executed, in order:
\* `*used_gas = engine.gas_used()` right after the engine entry point returns,
\* and in handle `*used_gas = used_gas.saturating_sub(refund_cache_gas)` once
\* flush_cache has returned Ok
UsedGasWrites(in, r) ==
    IF ~Reached(r, "engine_call") THEN << >>
    ELSE IF in.op = "handle" /\ Passed(r, "flush_cache") THEN << "gas_used", "saturating_sub" >>
    ELSE << "gas_used" >>

\* the value of *used_gas after the assignments, when it held `before` at the
\* call, the engine used gas_used and flush_cache refunded refund_cache_gas
used_gas_after(writes, before, gas_used, refund_cache_gas) ==
    LET written == IF Len(writes) >= 1 THEN gas_used ELSE before
    IN  IF Len(writes) >= 2 THEN saturating_sub(written, refund_cache_gas) ELSE written

\* the record a call leaves behind: inputs, stages executed, collaborator
\* invocations and the Result returned to the node
CallRecord(in, env, r, vp, engine_key, engine_sender, pred, out_key, out_proof) ==
    [ in            |-> in,
      env           |-> env,
      trace         |-> r.trace,
      ok            |-> r.ok,
      err           |-> r.err,
      failed        |-> r.failed,
      swallowed     |-> r.swallowed,
      vp            |-> IF Reached(r, "verify_params") THEN vp ELSE NoVerifyParams,
      engine_key    |-> IF Reached(r, "start_engine") THEN engine_key ELSE NoKey,
      engine_sender |-> IF Reached(r, "engine_call") THEN engine_sender ELSE "",
      engine_env_changes |-> IF Reached(r, "engine_call") THEN EngineEnvChanges(in) ELSE {},
      engine_msg    |-> IF Reached(r, "engine_call") THEN EngineMsg(in) ELSE "",
      reply_params  |-> IF Reached(r, "engine_call") THEN ReplyParams(in) ELSE "",
      used_gas_writes |-> UsedGasWrites(in, r),
      pred          |-> pred,
      post_process  |-> IF Reached(r, "post_process_output")
                        THEN PostProcessOutputArgs(in, env) ELSE NoPostProcess,
      output        |-> r.ok /\ in.op # "update_admin",
      out_key       |-> IF r.ok THEN out_key ELSE NoKey,
      out_proof     |-> IF r.ok THEN out_proof ELSE NoProof ]

----------------------------------------------------------------------------
(* init *)

\* the verify_params invocation of init
InitVerifyParams(canonical_sender_address, contract_address, canonical_admin_address) ==
    VerifyParamsArgs(canonical_sender_address, contract_address, TRUE, TRUE,
                     VerifyParamsType_Init, canonical_admin_address, NoneAddr)

\* variant: the payload is decrypted before verify_params
InitPayloadStages_DecryptFirst(in) ==
    << Try("decrypt", F(in, "decrypt"), "DecryptionFailure"),
       Try("verify_params", F(in, "verify_params"), "ValidationFailure"),
       Try("validate_msg", F(in, "validate_msg"), "ValidationFailure") >>

\* init: verification, then decryption and validation of the payload
InitPayloadStages(in) ==
    << Try("verify_params", F(in, "verify_params"), "ValidationFailure"),
       Try("decrypt", F(in, "decrypt"), "DecryptionFailure"),
       Try("validate_msg", F(in, "validate_msg"), "ValidationFailure") >>

\* variant: a failure to flush the engine cache is ignored
InitOutputStages_NoFlush(in) ==
    << Do("flush_cache"),
       Try("post_process_output", F(in, "post_process_output"), "CollaboratorError"),
       Do("generate_admin_proof") >>

\* init: what follows the engine call, up to the admin proof of the result
InitOutputStages(in) ==
    << Try("flush_cache", F(in, "flush_cache"), "FailedFunctionCall"),
       Try("post_process_output", F(in, "post_process_output"), "CollaboratorError"),
       Do("generate_admin_proof") >>

\* variant: an env without query_depth is taken to have depth 0
InitEnvStages_DefaultDepth(in) ==
    << Try("extract_base_env", F(in, "extract_base_env"), "FailedToDeserialize"),
       Try("verify_block_info", F(in, "verify_block_info"), "ValidationFailure"),
       Do("extract_query_depth") >>

\* init: extract_base_env(env)?, verify_block_info(&base_env)?, extract_query_depth(env)?
InitEnvStages(in) ==
    << Try("extract_base_env", F(in, "extract_base_env"), "FailedToDeserialize"),
       Try("verify_block_info", F(in, "verify_block_info"), "ValidationFailure"),
       Try("extract_query_depth", F(in, "extract_query_depth"), "FailedToDeserialize") >>

\* init: the steps in source order
InitStages(in, env) ==
    InitEnvStages(in) \o
    << Try("to_canonical_contract", to_canonical(env.contract_address) = AddrErr, "FailedToDeserialize"),
       Try("to_canonical_sender", to_canonical(env.sender) = AddrErr, "FailedToDeserialize"),
       Try("generate_contract_key", F(in, "generate_contract_key"), "CollaboratorError"),
       Try("extract_sig_info", F(in, "extract_sig_info"), "FailedToDeserialize"),
       Try("secret_msg_from_slice", F(in, "secret_msg_from_slice"), "FailedToDeserialize") >>
    \o InitPayloadStages(in) \o
    << Try("start_engine", F(in, "start_engine"), "ExecutionFailure"),
       Do("set_random_in_env"),
       Do("update_msg_counter"),
       Try("engine_call", F(in, "engine_call"), "EngineError") >>
    \o InitOutputStages(in)

\* variant: the proof is issued to the sender of the instantiate message
InitAdminProof_Sender(canonical_sender_address, canonical_admin_address, og_contract_key) ==
    generate_admin_proof(canonical_sender_address, og_contract_key)

\* the admin proof InitSuccess carries: generate_admin_proof(&canonical_admin_address, &og_contract_key)
InitAdminProof(canonical_sender_address, canonical_admin_address, og_contract_key) ==
    generate_admin_proof(canonical_admin_address, og_contract_key)

\* variant: the key is bound to the admin argument instead of the sender
InitKeyAddress_Admin(canonical_sender_address, canonical_admin_address) == canonical_admin_address

\* the address init passes to generate_contract_key: &canonical_sender_address
InitKeyAddress(canonical_sender_address, canonical_admin_address) == canonical_sender_address

\* init(context, gas_limit, used_gas, contract, env, msg, sig_info, admin)
init(in, env) ==
    LET contract_hash == calc_contract_hash(in.code)
        canonical_contract_address == to_canonical(env.contract_address)
        canonical_sender_address == to_canonical(env.sender)
        canonical_admin_address == in.admin
        og_contract_key == generate_contract_key(
                               InitKeyAddress(canonical_sender_address, canonical_admin_address),
                               env.block_height, contract_hash, canonical_contract_address, NoKey)
        r == Run(InitStages(in, env))
    IN  CallRecord(in, env, r,
            InitVerifyParams(canonical_sender_address, env.contract_address, canonical_admin_address),
            og_contract_key,
            env.sender,
            NoKey,
            og_contract_key,
            InitAdminProof(canonical_sender_address, canonical_admin_address, og_contract_key))

----------------------------------------------------------------------------
(* migrate *)

\* variant: the proof of the admin argument is compared
ProofAddress_Admin(canonical_sender_address, canonical_admin_address) == canonical_admin_address

\* the address whose admin proof migrate and update_admin compare with the caller's proof
ProofAddress(canonical_sender_address, canonical_admin_address) == canonical_sender_address

\* the predecessor migrate passes to generate_contract_key: Some(&og_contract_key)
MigratePredecessor(og_contract_key) == og_contract_key

\* the key MigrateSuccess carries
MigrateSuccessKey(og_contract_key, new_contract_key) == new_contract_key

\* variant: migrate does not ask for the signature check
MigrateVerifyParams_NoSig(canonical_sender_address, contract_address, canonical_admin_address) ==
    VerifyParamsArgs(canonical_sender_address, contract_address, FALSE, TRUE,
                     VerifyParamsType_Migrate, canonical_admin_address, NoneAddr)

\* the verify_params invocation of migrate
MigrateVerifyParams(canonical_sender_address, contract_address, canonical_admin_address) ==
    VerifyParamsArgs(canonical_sender_address, contract_address, TRUE, TRUE,
                     VerifyParamsType_Migrate, canonical_admin_address, NoneAddr)

\* variant: the hardcoded override counts only when the sender is that admin
MigrateAuthStages_SenderBound(in, env) ==
    IF /\ is_hardcoded_contract_admin(to_canonical(env.contract_address), in.admin, in.admin_proof)
       /\ to_canonical(env.sender) = in.admin
    THEN << Do("is_hardcoded_contract_admin") >>
    ELSE << Do("is_hardcoded_contract_admin"),
            Try("admin_proof_check",
                in.admin_proof # generate_admin_proof(ProofAddress(to_canonical(env.sender), in.admin),
                                                      get_og_contract_key(env)),
                "ValidationFailure") >>

\* variant: the caller's proof is not compared with the derived proof
MigrateAuthStages_NoCheck(in, env) == << Do("is_hardcoded_contract_admin") >>

\* migrate: the admin authorization block
MigrateAuthStages(in, env) ==
    IF is_hardcoded_contract_admin(to_canonical(env.contract_address), in.admin, in.admin_proof)
    THEN << Do("is_hardcoded_contract_admin") >>
    ELSE << Do("is_hardcoded_contract_admin"),
            Try("admin_proof_check",
                in.admin_proof # generate_admin_proof(ProofAddress(to_canonical(env.sender), in.admin),
                                                      get_og_contract_key(env)),
                "ValidationFailure") >>

\* variant: the call is counted once the engine has returned
MigrateEngineStages_CountAfter(in) ==
    << Do("set_random_in_env"),
       Try("engine_call", F(in, "engine_call"), "EngineError"),
       Do("update_msg_counter") >>

\* migrate: set_random_in_env, update_msg_counter(block_height), engine.migrate and `result?`
MigrateEngineStages(in) ==
    << Do("set_random_in_env"),
       Do("update_msg_counter"),
       Try("engine_call", F(in, "engine_call"), "EngineError") >>

\* migrate: the steps in source order
MigrateStages(in, env) ==
    << Try("extract_base_env", F(in, "extract_base_env"), "FailedToDeserialize"),
       Try("verify_block_info", F(in, "verify_block_info"), "ValidationFailure"),
       Try("extract_query_depth", F(in, "extract_query_depth"), "FailedToDeserialize"),
       Try("to_canonical_contract", to_canonical(env.contract_address) = AddrErr, "FailedToDeserialize"),
       Try("to_canonical_sender", to_canonical(env.sender) = AddrErr, "FailedToDeserialize"),
       Try("get_og_contract_key", get_og_contract_key(env) = NoKey, "FailedToDeserialize") >>
    \o MigrateAuthStages(in, env) \o
    << Try("extract_sig_info", F(in, "extract_sig_info"), "FailedToDeserialize"),
       Try("secret_msg_from_slice", F(in, "secret_msg_from_slice"), "FailedToDeserialize"),
       Try("verify_params", F(in, "verify_params"), "ValidationFailure"),
       Try("decrypt", F(in, "decrypt"), "DecryptionFailure"),
       Try("validate_msg", F(in, "validate_msg"), "ValidationFailure"),
       Try("start_engine", F(in, "start_engine"), "ExecutionFailure"),
       Try("generate_contract_key", F(in, "generate_contract_key"), "CollaboratorError") >>
    \o MigrateEngineStages(in) \o
    << Try("flush_cache", F(in, "flush_cache"), "FailedFunctionCall"),
       Try("post_process_output", F(in, "post_process_output"), "CollaboratorError"),
       Do("generate_contract_key_proof") >>

\* migrate(context, gas_limit, used_gas, contract, env, msg, sig_info, admin, admin_proof)
migrate(in, env) ==
    LET contract_hash == calc_contract_hash(in.code)
        canonical_contract_address == to_canonical(env.contract_address)
        canonical_sender_address == to_canonical(env.sender)
        canonical_admin_address == in.admin
        og_contract_key == get_og_contract_key(env)
        pred == MigratePredecessor(og_contract_key)
        new_contract_key == generate_contract_key(canonical_sender_address, env.block_height,
                                                  contract_hash, canonical_contract_address, pred)
        r == Run(MigrateStages(in, env))
    IN  CallRecord(in, env, r,
            MigrateVerifyParams(canonical_sender_address, env.contract_address, canonical_admin_address),
            og_contract_key,
            env.sender,
            IF Reached(r, "generate_contract_key") THEN pred ELSE NoKey,
            MigrateSuccessKey(og_contract_key, new_contract_key),
            generate_contract_key_proof(canonical_contract_address, contract_hash,
                                        og_contract_key, new_contract_key))

----------------------------------------------------------------------------
(* update_admin *)

\* the verify_params invocation of update_admin
UpdateAdminVerifyParams(canonical_sender_address, contract_address, current_admin, new_admin) ==
    VerifyParamsArgs(canonical_sender_address, contract_address, TRUE, TRUE,
                     VerifyParamsType_UpdateAdmin, current_admin, new_admin)

\* variant: update_admin counts as a message of the block
UpdateAdminIssueStages_Counted(in) ==
    << Try("extract_sig_info", F(in, "extract_sig_info"), "FailedToDeserialize"),
       Try("verify_params", F(in, "verify_params"), "ValidationFailure"),
       Do("update_msg_counter"),
       Do("generate_admin_proof") >>

\* update_admin: what follows the admin authorization
UpdateAdminIssueStages(in) ==
    << Try("extract_sig_info", F(in, "extract_sig_info"), "FailedToDeserialize"),
       Try("verify_params", F(in, "verify_params"), "ValidationFailure"),
       Do("generate_admin_proof") >>

\* variant: the proof is issued to the current admin again
UpdateAdminNewProof_Current(current_admin, new_admin, og_contract_key) ==
    generate_admin_proof(current_admin, og_contract_key)

\* the proof UpdateAdminSuccess carries
UpdateAdminNewProof(current_admin, new_admin, og_contract_key) ==
    generate_admin_proof(new_admin, og_contract_key)

\* update_admin: the steps in source order
UpdateAdminStages(in, env) ==
    << Try("extract_base_env", F(in, "extract_base_env"), "FailedToDeserialize"),
       Try("verify_block_info", F(in, "verify_block_info"), "ValidationFailure"),
       Try("to_canonical_sender", to_canonical(env.sender) = AddrErr, "FailedToDeserialize"),
       Try("to_canonical_contract", to_canonical(env.contract_address) = AddrErr, "FailedToDeserialize"),
       Try("is_hardcoded_contract_admin",
           is_hardcoded_contract_admin(to_canonical(env.contract_address), in.admin, in.admin_proof),
           "ValidationFailure"),
       Try("get_og_contract_key", get_og_contract_key(env) = NoKey, "FailedToDeserialize"),
       Try("admin_proof_check",
           generate_admin_proof(ProofAddress(to_canonical(env.sender), in.admin),
                                get_og_contract_key(env)) # in.admin_proof,
           "ValidationFailure") >>
    \o UpdateAdminIssueStages(in)

\* update_admin(env, sig_info, current_admin, current_admin_proof, new_admin)
update_admin(in, env) ==
    LET canonical_sender_address == to_canonical(env.sender)
        canonical_current_admin_address == in.admin
        canonical_new_admin_address == in.new_admin
        og_contract_key == get_og_contract_key(env)
        r == Run(UpdateAdminStages(in, env))
    IN  CallRecord(in, env, r,
            UpdateAdminVerifyParams(canonical_sender_address, env.contract_address,
                                    canonical_current_admin_address, canonical_new_admin_address),
            NoKey,
            "",
            NoKey,
            NoKey,
            UpdateAdminNewProof(canonical_current_admin_address, canonical_new_admin_address,
                                og_contract_key))

----------------------------------------------------------------------------
(* handle *)

\* variant: handle always asks for both checks, as init does
HandleVerifyParams_AlwaysVerify(canonical_sender_address, contract_address, parsed_msg, parsed_handle_type) ==
    VerifyParamsArgs(canonical_sender_address, contract_address, TRUE, TRUE,
                     VerifyParamsType_HandleType(parsed_handle_type), NoneAddr, NoneAddr)

\* the verify_params invocation of handle: the flags come from the ParsedMessage
HandleVerifyParams(canonical_sender_address, contract_address, parsed_msg, parsed_handle_type) ==
    VerifyParamsArgs(canonical_sender_address, contract_address,
                     parsed_msg.should_verify_sig_info, parsed_msg.should_verify_input,
                     VerifyParamsType_HandleType(parsed_handle_type), NoneAddr, NoneAddr)

\* variant: only Reply gets the null sender
HandleEngineSender_ReplyOnly(parsed_handle_type, sender) ==
    IF parsed_handle_type = "HANDLE_TYPE_REPLY" THEN "" ELSE sender

\* msg.sender of the env handed to the engine: the `match parsed_handle_type` block
HandleEngineSender(parsed_handle_type, sender) ==
    IF parsed_handle_type = "HANDLE_TYPE_EXECUTE" THEN sender ELSE ""

\* the contract key handle starts the engine with
HandleEngineKey(env) == get_og_contract_key(env)

\* variant: the decrypted payload goes to the engine unvalidated
HandleValidateStages_Skip(in, parsed_msg) == << >>

\* handle: payload steps that follow verify_params
HandleValidateStages(in, parsed_msg) ==
    IF parsed_msg.was_msg_encrypted
    THEN << Try("validate_msg", F(in, "validate_msg"), "ValidationFailure") >>
    ELSE << >>

\* handle: the payload is decrypted while the message is parsed, when it is encrypted
HandleParseStages(in, parsed_handle_type) ==
    << Try("parse_message",
           F(in, "parse_message") \/ parse_message_fails(in.encrypted, parsed_handle_type),
           "FailedToDeserialize") >>
    \o (IF in.encrypted
        THEN << Try("decrypt", F(in, "decrypt"), "DecryptionFailure") >>
        ELSE << >>)

\* handle: output finalization
HandleOutputStages(in, parsed_msg) ==
    IF parsed_msg.should_encrypt_output
    THEN << Try("post_process_output", F(in, "post_process_output"), "CollaboratorError") >>
    ELSE << Try("manipulate_callback_sig_for_plaintext",
                F(in, "manipulate_callback_sig_for_plaintext"), "CollaboratorError"),
            Do("set_all_logs_to_plaintext"),
            Try("finalize_raw_output", F(in, "finalize_raw_output"), "CollaboratorError") >>

\* variant: the cache is flushed before the result of the engine is looked at
HandleEngineStages_FlushFirst(in) ==
    << Do("engine_call"),
       Try("flush_cache", F(in, "flush_cache") \/ F(in, "engine_call"), "FailedFunctionCall") >>

\* handle: the engine entry point, `result?`, then flush_cache().map_err(FailedFunctionCall)?
HandleEngineStages(in) ==
    << Try("engine_call", F(in, "engine_call"), "EngineError"),
       Try("flush_cache", F(in, "flush_cache"), "FailedFunctionCall") >>

\* variant: the handle type is recognized before the env is looked at
HandleEntryStages_TypeFirst(in, env) ==
    << Try("try_from", try_from(in.handle_type) = HandleTypeErr, "FailedToDeserialize"),
       Try("extract_base_env", F(in, "extract_base_env"), "FailedToDeserialize"),
       Try("verify_block_info", F(in, "verify_block_info"), "ValidationFailure"),
       Try("extract_query_depth", F(in, "extract_query_depth"), "FailedToDeserialize"),
       Try("to_canonical_contract", to_canonical(env.contract_address) = AddrErr, "FailedToDeserialize"),
       Try("validate_contract_key",
           ~validate_contract_key(env, to_canonical(env.contract_address), in.code),
           "ValidationFailure"),
       Try("extract_sig_info", F(in, "extract_sig_info"), "FailedToDeserialize") >>

\* handle: the checks on the env, the contract key, sig_info and the handle type
HandleEntryStages(in, env) ==
    << Try("extract_base_env", F(in, "extract_base_env"), "FailedToDeserialize"),
       Try("verify_block_info", F(in, "verify_block_info"), "ValidationFailure"),
       Try("extract_query_depth", F(in, "extract_query_depth"), "FailedToDeserialize"),
       Try("to_canonical_contract", to_canonical(env.contract_address) = AddrErr, "FailedToDeserialize"),
       Try("validate_contract_key",
           ~validate_contract_key(env, to_canonical(env.contract_address), in.code),
           "ValidationFailure"),
       Try("extract_sig_info", F(in, "extract_sig_info"), "FailedToDeserialize"),
       Try("try_from", try_from(in.handle_type) = HandleTypeErr, "FailedToDeserialize") >>

\* handle: the steps in source order
HandleStages(in, env) ==
    LET parsed_handle_type == try_from(in.handle_type)
        parsed_msg == parse_message(in.encrypted, parsed_handle_type)
    IN  HandleEntryStages(in, env)
        \o HandleParseStages(in, parsed_handle_type) \o
        << Catch("to_canonical_sender", to_canonical(env.sender) = AddrErr),
           Try("verify_params", F(in, "verify_params"), "ValidationFailure") >>
        \o HandleValidateStages(in, parsed_msg) \o
        << Try("get_og_contract_key", get_og_contract_key(env) = NoKey, "FailedToDeserialize"),
           Try("start_engine", F(in, "start_engine"), "ExecutionFailure"),
           Do("set_msg_sender"),
           Try("get_latest_contract_key", get_latest_contract_key(env) = NoKey, "FailedToDeserialize"),
           Do("set_random_in_env"),
           Do("update_msg_counter") >>
        \o HandleEngineStages(in)
        \o HandleOutputStages(in, parsed_msg)

\* handle(context, gas_limit, used_gas, contract, env, msg, sig_info, handle_type)
handle(in, env) ==
    LET parsed_handle_type == try_from(in.handle_type)
        parsed_msg == parse_message(in.encrypted, parsed_handle_type)
        canonical_sender_address == HandleCanonicalSender(env.sender)
        r == Run(HandleStages(in, env))
    IN  CallRecord(in, env, r,
            HandleVerifyParams(canonical_sender_address, env.contract_address,
                               parsed_msg, parsed_handle_type),
            HandleEngineKey(env),
            HandleEngineSender(parsed_handle_type, env.sender),
            NoKey,
            NoKey,
            NoProof)

----------------------------------------------------------------------------
(* query *)

\* query: the steps in source order
QueryStages(in, env) ==
    << Try("extract_base_env", F(in, "extract_base_env"), "FailedToDeserialize"),
       Try("extract_query_depth", F(in, "extract_query_depth"), "FailedToDeserialize"),
       Try("to_canonical_contract", to_canonical(env.contract_address) = AddrErr, "FailedToDeserialize"),
       Try("validate_contract_key",
           ~validate_contract_key(env, to_canonical(env.contract_address), in.code),
           "ValidationFailure"),
       Try("secret_msg_from_slice", F(in, "secret_msg_from_slice"), "FailedToDeserialize"),
       Try("decrypt", F(in, "decrypt"), "DecryptionFailure"),
       Try("validate_msg", F(in, "validate_msg"), "ValidationFailure"),
       Try("get_og_contract_key", get_og_contract_key(env) = NoKey, "FailedToDeserialize"),
       Try("start_engine", F(in, "start_engine"), "ExecutionFailure"),
       Try("engine_call", F(in, "engine_call"), "EngineError"),
       Try("post_process_output", F(in, "post_process_output"), "CollaboratorError") >>

\* query(context, gas_limit, used_gas, contract, env, msg)
query(in, env) ==
    CallRecord(in, env, Run(QueryStages(in, env)),
               NoVerifyParams, get_og_contract_key(env), env.sender, NoKey, NoKey, NoProof)

----------------------------------------------------------------------------
(* Transaction parsing (types.rs) *)

\* the type URLs DirectSdkMsg::from_bytes matches on
URL_INSTANTIATE == "/secret.compute.v1beta1.MsgInstantiateContract"
URL_EXECUTE == "/secret.compute.v1beta1.MsgExecuteContract"
URL_MIGRATE == "/secret.compute.v1beta1.MsgMigrateContract"
URL_UPDATE_ADMIN == "/secret.compute.v1beta1.MsgUpdateAdmin"
URL_CLEAR_ADMIN == "/secret.compute.v1beta1.MsgClearAdmin"
URL_RECV_PACKET == "/ibc.core.channel.v1.MsgRecvPacket"
URL_ACKNOWLEDGEMENT == "/ibc.core.channel.v1.MsgAcknowledgement"
URL_TIMEOUT == "/ibc.core.channel.v1.MsgTimeout"

RecognizedUrls ==
    {URL_INSTANTIATE, URL_EXECUTE, URL_MIGRATE, URL_UPDATE_ADMIN, URL_CLEAR_ADMIN,
     URL_RECV_PACKET, URL_ACKNOWLEDGEMENT, URL_TIMEOUT}

\* type URLs of a transaction: the recognized ones and one of another module
TypeUrls == RecognizedUrls \cup {"/cosmos.bank.v1beta1.MsgSend"}

\* message bytes, by what the decoders find in them: "valid" decodes and every
\* field is well formed; "malformed" is not a protobuf message; "no_packet"
\* decodes and has no packet field; "bad_address" decodes and its sender and
\* contract addresses do not convert; "bad_funds" decodes and a coin amount is
\* not a number
MsgBytes == {"valid", "malformed", "no_packet", "bad_address", "bad_funds"}

\* Err(EnclaveError::FailedToDeserialize) of the parsers
ParseErr == [variant |-> "Err", payload |-> ""]

\* Ok(DirectSdkMsg::<variant> { fields taken from the bytes })
Parsed(variant, bytes) == [variant |-> variant, payload |-> bytes]

\* Ok(DirectSdkMsg::Other): a unit variant, nothing of the bytes is kept
Other == [variant |-> "Other", payload |-> ""]

\* parse_from_bytes(bytes) of the generated protobuf types
parse_from_bytes_fails(bytes) == bytes = "malformed"

try_parse_instantiate(bytes) ==
    IF parse_from_bytes_fails(bytes) \/ bytes = "bad_funds"
    THEN ParseErr ELSE Parsed("MsgInstantiateContract", bytes)

try_parse_execute(bytes) ==
    IF parse_from_bytes_fails(bytes) \/ bytes = "bad_address" \/ bytes = "bad_funds"
    THEN ParseErr ELSE Parsed("MsgExecuteContract", bytes)

try_parse_migrate(bytes) ==
    IF parse_from_bytes_fails(bytes) \/ bytes = "bad_address"
    THEN ParseErr ELSE Parsed("MsgMigrateContract", bytes)

try_parse_update_admin(bytes) ==
    IF parse_from_bytes_fails(bytes) \/ bytes = "bad_address"
    THEN ParseErr ELSE Parsed("MsgUpdateAdmin", bytes)

try_parse_clear_admin(bytes) ==
    IF parse_from_bytes_fails(bytes) \/ bytes = "bad_address"
    THEN ParseErr ELSE Parsed("MsgClearAdmin", bytes)

try_parse_ibc_recv_packet(bytes) ==
    IF parse_from_bytes_fails(bytes) \/ bytes = "no_packet"
    THEN ParseErr ELSE Parsed("MsgRecvPacket", bytes)

try_parse_ibc_ack(bytes) ==
    IF parse_from_bytes_fails(bytes) \/ bytes = "no_packet"
    THEN ParseErr ELSE Parsed("MsgAcknowledgement", bytes)

try_parse_ibc_timeout(bytes) ==
    IF parse_from_bytes_fails(bytes) \/ bytes = "no_packet"
    THEN ParseErr ELSE Parsed("MsgTimeout", bytes)

\* variant: a clear-admin message is parsed as an update-admin message
DirectSdkMsg_from_bytes_ClearAsUpdate(type_url, bytes) ==
    CASE type_url = URL_INSTANTIATE -> try_parse_instantiate(bytes)
      [] type_url = URL_EXECUTE -> try_parse_execute(bytes)
      [] type_url = URL_MIGRATE -> try_parse_migrate(bytes)
      [] type_url = URL_UPDATE_ADMIN -> try_parse_update_admin(bytes)
      [] type_url = URL_CLEAR_ADMIN -> try_parse_update_admin(bytes)
      [] type_url = URL_RECV_PACKET -> try_parse_ibc_recv_packet(bytes)
      [] type_url = URL_ACKNOWLEDGEMENT -> try_parse_ibc_ack(bytes)
      [] type_url = URL_TIMEOUT -> try_parse_ibc_timeout(bytes)
      [] OTHER -> Other

\* DirectSdkMsg::from_bytes(type_url, bytes)
DirectSdkMsg_from_bytes(type_url, bytes) ==
    CASE type_url = URL_INSTANTIATE -> try_parse_instantiate(bytes)
      [] type_url = URL_EXECUTE -> try_parse_execute(bytes)
      [] type_url = URL_MIGRATE -> try_parse_migrate(bytes)
      [] type_url = URL_UPDATE_ADMIN -> try_parse_update_admin(bytes)
      [] type_url = URL_CLEAR_ADMIN -> try_parse_clear_admin(bytes)
      [] type_url = URL_RECV_PACKET -> try_parse_ibc_recv_packet(bytes)
      [] type_url = URL_ACKNOWLEDGEMENT -> try_parse_ibc_ack(bytes)
      [] type_url = URL_TIMEOUT -> try_parse_ibc_timeout(bytes)
      [] OTHER -> Other

\* a protobuf Any: type_url and value
AnyMsg(type_url, value) == [type_url |-> type_url, value |-> value]

\* the bytes of a TxBody: whether they decode, and the messages they hold
BodyBytes(decodes, messages) == [decodes |-> decodes, messages |-> messages]

\* the bytes of a SignDoc: whether they decode, body_bytes, and whether
\* AuthInfo::from_bytes accepts auth_info_bytes
SignDocBytes(decodes, body_bytes, auth_info_ok) ==
    [decodes |-> decodes, body_bytes |-> body_bytes, auth_info_ok |-> auth_info_ok]

\* the result of a parser: Ok with the messages parsed, or Err(FailedToDeserialize)
TxOk(messages) == [ok |-> TRUE, messages |-> messages]
TxErr == [ok |-> FALSE, messages |-> << >>]

\* variant: a message that does not parse is left out of the body
TxBody_from_bytes_Lenient(bytes) ==
    IF ~bytes.decodes THEN TxErr
    ELSE LET parsed == [i \in 1..Len(bytes.messages) |->
                            DirectSdkMsg_from_bytes(bytes.messages[i].type_url,
                                                    bytes.messages[i].value)]
             IsOk(m) == m # ParseErr
         IN  TxOk(SelectSeq(parsed, IsOk))

\* TxBody::from_bytes(bytes): decode, map DirectSdkMsg::from_bytes over the
\* messages, collect::<Result<Vec<_>, _>>()?
TxBody_from_bytes(bytes) ==
    IF ~bytes.decodes THEN TxErr
    ELSE LET parsed == [i \in 1..Len(bytes.messages) |->
                            DirectSdkMsg_from_bytes(bytes.messages[i].type_url,
                                                    bytes.messages[i].value)]
         IN  IF \E i \in 1..Len(parsed) : parsed[i] = ParseErr
             THEN TxErr
             ELSE TxOk(parsed)

\* SignDoc::from_bytes(bytes): decode, TxBody::from_bytes(body_bytes)?,
\* AuthInfo::from_bytes(auth_info_bytes)?; the result is shown by its body
SignDoc_from_bytes(bytes) ==
    IF ~bytes.decodes THEN TxErr
    ELSE LET body == TxBody_from_bytes(bytes.body_bytes)
         IN  IF ~body.ok THEN TxErr
             ELSE IF ~bytes.auth_info_ok THEN TxErr
             ELSE body

\* type URLs of public keys: the two CosmosPubKey::from_proto matches on, and another
TYPE_URL_SECP256K1_PUBKEY == "/cosmos.crypto.secp256k1.PubKey"
TYPE_URL_MULTISIG_LEGACY_AMINO_PUBKEY == "/cosmos.crypto.multisig.LegacyAminoPubKey"
TYPE_URL_ED25519_PUBKEY == "/cosmos.crypto.ed25519.PubKey"

\* a protobuf Any holding a public key: its type URL, whether its value decodes
\* as the message of that URL, and what the value holds (the key of a PubKey;
\* the threshold and the public_keys of a LegacyAminoPubKey)
PubKeyAny(type_url, decodes, key, public_keys) ==
    [type_url |-> type_url, decodes |-> decodes, key |-> key, public_keys |-> public_keys]

\* Err(CryptoError::ParsingError) of CosmosPubKey::from_proto
PubKeyErr == [kind |-> "Err", key |-> 0, pubkeys |-> << >>]

\* CosmosPubKey::Secp256k1(Secp256k1PubKey::new(key))
Secp256k1(key) == [kind |-> "Secp256k1", key |-> key, pubkeys |-> << >>]

\* CosmosPubKey::Multisig(MultisigThresholdPubKey::new(threshold, pubkeys))
Multisig(threshold, pubkeys) == [kind |-> "Multisig", key |-> threshold, pubkeys |-> pubkeys]

RECURSIVE CosmosPubKey_from_proto(_)
\* CosmosPubKey::from_proto(public_key), with secp256k1_from_proto and
\* multisig_legacy_amino_from_proto
CosmosPubKey_from_proto(public_key) ==
    IF public_key.type_url = TYPE_URL_SECP256K1_PUBKEY
    THEN IF ~public_key.decodes THEN PubKeyErr ELSE Secp256k1(public_key.key)
    ELSE IF public_key.type_url = TYPE_URL_MULTISIG_LEGACY_AMINO_PUBKEY
    THEN IF ~public_key.decodes THEN PubKeyErr
         ELSE LET pubkeys == [i \in 1..Len(public_key.public_keys) |->
                                  CosmosPubKey_from_proto(public_key.public_keys[i])]
              IN  IF \E i \in 1..Len(pubkeys) : pubkeys[i] = PubKeyErr
                  THEN PubKeyErr
                  ELSE Multisig(public_key.key, pubkeys)
    ELSE PubKeyErr

\* proto::tx::tx::SignerInfo: its public_key, when it has one, and its sequence
RawSignerInfo(has_public_key, public_key, sequence) ==
    [has_public_key |-> has_public_key, public_key |-> public_key, sequence |-> sequence]

\* Err(EnclaveError::FailedToDeserialize) of SignerInfo::from_proto
SignerErr == [public_key |-> PubKeyErr, sequence |-> 0]

\* SignerInfo::from_proto(raw_signer_info)
SignerInfo_from_proto(raw_signer_info) ==
    IF ~raw_signer_info.has_public_key THEN SignerErr
    ELSE LET public_key == CosmosPubKey_from_proto(raw_signer_info.public_key)
         IN  IF public_key = PubKeyErr THEN SignerErr
             ELSE [public_key |-> public_key, sequence |-> raw_signer_info.sequence]

\* the bytes of an AuthInfo: whether they decode, and the signer_infos they hold
AuthInfoBytes(decodes, signer_infos) == [decodes |-> decodes, signer_infos |-> signer_infos]

\* the result of AuthInfo::from_bytes: Ok(AuthInfo { signer_infos, .. }) or
\* Err(FailedToDeserialize)
AuthInfoOk(signer_infos) == [ok |-> TRUE, signer_infos |-> signer_infos]
AuthInfoErr == [ok |-> FALSE, signer_infos |-> << >>]

\* variant: a transaction without signers is accepted
AuthInfo_from_bytes_AllowEmpty(bytes) ==
    IF ~bytes.decodes THEN AuthInfoErr
    ELSE LET signer_infos == [i \in 1..Len(bytes.signer_infos) |->
                                  SignerInfo_from_proto(bytes.signer_infos[i])]
         IN  IF \E i \in 1..Len(signer_infos) : signer_infos[i] = SignerErr
             THEN AuthInfoErr
             ELSE AuthInfoOk(signer_infos)

\* AuthInfo::from_bytes(bytes)
AuthInfo_from_bytes(bytes) ==
    IF ~bytes.decodes THEN AuthInfoErr
    ELSE LET signer_infos == [i \in 1..Len(bytes.signer_infos) |->
                                  SignerInfo_from_proto(bytes.signer_infos[i])]
         IN  IF \E i \in 1..Len(signer_infos) : signer_infos[i] = SignerErr
             THEN AuthInfoErr
             ELSE IF Len(signer_infos) = 0 THEN AuthInfoErr
             ELSE AuthInfoOk(signer_infos)

\* get_address of a public key (CosmosAminoPubkey): a hash of the key,
\* shorter than the key, so that different keys can have one address
get_address(public_key) ==
    IF public_key.kind = "Secp256k1" THEN 1 + (public_key.key % 2)
    ELSE 3 + (public_key.key % 2)

\* Option<&CosmosPubKey>::None
NoPubKey == [kind |-> "None", key |-> 0, pubkeys |-> << >>]

\* variant: the last signer with the address of the sender is taken
sender_public_key_Last(signer_infos, sender) ==
    LET found == {i \in 1..Len(signer_infos) : get_address(signer_infos[i].public_key) = sender}
    IN  IF found = {} THEN NoPubKey
        ELSE signer_infos[CHOOSE i \in found : \A j \in found : j <= i].public_key

\* AuthInfo::sender_public_key(&self, sender): iter().find(..).map(..)
sender_public_key(signer_infos, sender) ==
    LET found == {i \in 1..Len(signer_infos) : get_address(signer_infos[i].public_key) = sender}
    IN  IF found = {} THEN NoPubKey
        ELSE signer_infos[CHOOSE i \in found : \A j \in found : i <= j].public_key

\* Option<&CanonicalAddr> of DirectSdkMsg::sender: None, or Some of the sender
\* field of the message
NoSender == [some |-> FALSE, of |-> ""]
SomeSender(msg) == [some |-> TRUE, of |-> msg.payload]

\* variant: a received packet has a sender as well
DirectSdkMsg_sender_Packet(msg) ==
    IF msg.variant \in {"MsgExecuteContract", "MsgInstantiateContract", "MsgMigrateContract",
                        "MsgUpdateAdmin", "MsgClearAdmin", "MsgRecvPacket"}
    THEN SomeSender(msg)
    ELSE NoSender

\* DirectSdkMsg::sender(&self)
DirectSdkMsg_sender(msg) ==
    CASE msg.variant \in {"MsgExecuteContract", "MsgInstantiateContract", "MsgMigrateContract",
                          "MsgUpdateAdmin", "MsgClearAdmin"} -> SomeSender(msg)
      [] msg.variant = "MsgRecvPacket" -> NoSender
      [] msg.variant = "MsgAcknowledgement" -> NoSender
      [] msg.variant = "MsgTimeout" -> NoSender
      [] msg.variant = "Other" -> NoSender

\* nothing has been parsed
NoTx ==
    [ parser |-> "none",
      bytes  |-> SignDocBytes(TRUE, BodyBytes(TRUE, << >>), TRUE),
      result |-> TxErr ]

----------------------------------------------------------------------------
(* The node: inputs it passes to the enclave *)

\* senders and contract addresses that appear in an env
EnvSenders == {"secret1u1", "secret1u2", "bad"}
EnvContracts == {"secret1c1", "secret1c2", "bad"}
HandleBytes == 0..MaxHandleByte

\* collaborators of each entry point that can return an error
FaultsOf(op) ==
    CASE op = "init" ->
            {"extract_base_env", "verify_block_info", "extract_query_depth", "generate_contract_key",
             "extract_sig_info", "secret_msg_from_slice", "verify_params", "decrypt", "validate_msg",
             "start_engine", "engine_call", "flush_cache", "post_process_output"}
      [] op = "migrate" ->
            {"extract_base_env", "verify_block_info", "extract_query_depth", "generate_contract_key",
             "extract_sig_info", "secret_msg_from_slice", "verify_params", "decrypt", "validate_msg",
             "start_engine", "engine_call", "flush_cache", "post_process_output"}
      [] op = "update_admin" ->
            {"extract_base_env", "verify_block_info", "extract_sig_info", "verify_params"}
      [] op = "handle" ->
            {"extract_base_env", "verify_block_info", "extract_query_depth", "extract_sig_info",
             "parse_message", "decrypt", "verify_params", "validate_msg", "start_engine",
             "engine_call", "flush_cache", "post_process_output",
             "manipulate_callback_sig_for_plaintext", "finalize_raw_output"}
      [] op = "query" ->
            {"extract_base_env", "extract_query_depth", "secret_msg_from_slice", "decrypt",
             "validate_msg", "start_engine", "engine_call", "post_process_output"}

\* the checks made on the env bytes: parse as BaseEnv, block info, query_depth
EnvFaults == {"extract_base_env", "verify_block_info", "extract_query_depth"}

\* a call returns at the first collaborator that fails (`?`), so no call observes
\* a second failure: every outcome is covered by at most one failing collaborator,
\* except that env bytes can be wrong in more than one respect at once
FaultSets(op) ==
    {{}} \cup {{f} : f \in FaultsOf(op)}
         \cup {fs \in SUBSET (EnvFaults \cap FaultsOf(op)) : Cardinality(fs) >= 2}

\* keys the node has been given for a contract (all of them, also superseded ones)
KnownKeys(st, contract) ==
    IF contract \in Contracts THEN {st[contract][i] : i \in 1..Len(st[contract])} ELSE {}

\* proof bytes the node can pass: zero bytes of the sentinel's length or shorter, and
\* admin proofs over the keys it holds for the contract
ProofInputs(st, sender, contract, admin) ==
    {ZeroProof(HASH_SIZE), ZeroProof(HASH_SIZE - 1)}
    \cup {generate_admin_proof(a, k) :
            a \in ({to_canonical(sender), admin} \ {AddrErr}),
            k \in KnownKeys(st, contract)}

\* the call inputs other than env
Input(op, code, admin, admin_proof, new_admin, handle_type, encrypted, faults) ==
    [ op          |-> op,
      code        |-> code,
      admin       |-> admin,
      admin_proof |-> admin_proof,
      new_admin   |-> new_admin,
      handle_type |-> handle_type,
      encrypted   |-> encrypted,
      faults      |-> faults ]

\* threads of the node
Threads == 1..MaxThreads

\* derive_random has not read the counter in this call
NotRead == -1

\* a thread with no call in progress
IdleThread ==
    [ op |-> "none", contract |-> "", height |-> 0, steps |-> << >>, seen |-> NotRead,
      random |-> FALSE, ok |-> FALSE, out_key |-> NoKey ]

\* no call in progress on any thread
NoThreads == [t \in Threads |-> IdleThread]

\* `last` while no call has returned
NoCall ==
    CallRecord(Input("none", 1, EmptyCanonical, NoProof, EmptyCanonical, 0, TRUE, {}),
               [sender |-> "", contract_address |-> "", block_height |-> 1,
                og_contract_key |-> NoKey, current_contract_key |-> NoKey],
               [trace |-> << >>, ok |-> FALSE, err |-> "", failed |-> "", swallowed |-> {}],
               NoVerifyParams, NoKey, "", NoKey, NoKey, NoProof)

----------------------------------------------------------------------------
(* Actions *)

Init ==
    /\ store = [c \in Contracts |-> << >>]
    /\ last = NoCall
    /\ pc = "idle"
    /\ msg_counter = NoCounter
    /\ threads = NoThreads
    /\ tx = NoTx

\* the node instantiates a contract at a fresh address
DoInit(senders, contracts, faultsets) ==
    /\ pc = "idle"
    /\ \E sender \in senders, contract \in contracts,
          code \in Codes, admin \in AdminBytes, faults \in faultsets :
        /\ StoredKey(store, contract) = NoKey
        /\ last' = init(Input("init", code, admin, NoProof, EmptyCanonical, 0, TRUE, faults),
                        BuildEnv(store, sender, contract))
    /\ pc' = "returned"
    /\ UNCHANGED <<store, msg_counter, threads, tx>>

DoMigrate(senders, contracts, faultsets) ==
    /\ pc = "idle"
    /\ \E sender \in senders, contract \in contracts,
          code \in Codes, admin \in AdminBytes, faults \in faultsets :
        \E admin_proof \in ProofInputs(store, sender, contract, admin) :
            last' = migrate(Input("migrate", code, admin, admin_proof, EmptyCanonical, 0, TRUE, faults),
                            BuildEnv(store, sender, contract))
    /\ pc' = "returned"
    /\ UNCHANGED <<store, msg_counter, threads, tx>>

DoUpdateAdmin(senders, contracts, faultsets) ==
    /\ pc = "idle"
    /\ \E sender \in senders, contract \in contracts,
          admin \in AdminBytes, new_admin \in AdminBytes, faults \in faultsets :
        \E admin_proof \in ProofInputs(store, sender, contract, admin) :
            last' = update_admin(Input("update_admin", 1, admin, admin_proof, new_admin, 0, TRUE, faults),
                                 BuildEnv(store, sender, contract))
    /\ pc' = "returned"
    /\ UNCHANGED <<store, msg_counter, threads, tx>>

DoHandle(senders, contracts, faultsets) ==
    /\ pc = "idle"
    /\ \E sender \in senders, contract \in contracts,
          code \in Codes, handle_type \in HandleBytes, encrypted \in BOOLEAN,
          faults \in faultsets :
        last' = handle(Input("handle", code, EmptyCanonical, NoProof, EmptyCanonical,
                             handle_type, encrypted, faults),
                       BuildEnv(store, sender, contract))
    /\ pc' = "returned"
    /\ UNCHANGED <<store, msg_counter, threads, tx>>

DoQuery(senders, contracts, faultsets) ==
    /\ pc = "idle"
    /\ \E sender \in senders, contract \in contracts,
          code \in Codes, faults \in faultsets :
        last' = query(Input("query", code, EmptyCanonical, NoProof, EmptyCanonical, 0, TRUE, faults),
                      BuildEnv(store, sender, contract))
    /\ pc' = "returned"
    /\ UNCHANGED <<store, msg_counter, threads, tx>>

\* calls with any env and any collaborator failure
CallInit == DoInit(EnvSenders, EnvContracts, FaultSets("init"))
CallMigrate == DoMigrate(EnvSenders, EnvContracts, FaultSets("migrate"))
CallUpdateAdmin == DoUpdateAdmin(EnvSenders, EnvContracts, FaultSets("update_admin"))
CallHandle == DoHandle(EnvSenders, EnvContracts, FaultSets("handle"))
CallQuery == DoQuery(EnvSenders, EnvContracts, FaultSets("query"))

\* the node takes the result; it persists the contract key of InitSuccess /
\* MigrateSuccess.  A behaviour ends where the node would hold more than `cap` keys.
DoReturn(cap) ==
    /\ pc = "returned"
    /\ (last.ok /\ last.in.op \in {"init", "migrate"}) => KeysStored(store) < cap
    /\ store' = IF last.ok /\ last.in.op \in {"init", "migrate"}
                THEN [store EXCEPT ![last.env.contract_address] = Append(@, last.out_key)]
                ELSE store
    /\ last' = NoCall
    /\ pc' = "idle"
    /\ UNCHANGED <<msg_counter, threads, tx>>

NodeReturn == DoReturn(MaxKeys)

Next ==
    \/ CallInit
    \/ CallMigrate
    \/ CallUpdateAdmin
    \/ CallHandle
    \/ CallQuery
    \/ NodeReturn

Spec == Init /\ [][Next]_vars

----------------------------------------------------------------------------
(* Key chains: the same handlers over longer histories, with well-formed envs *)
(* and collaborators that succeed                                            *)

ChainSenders == {"secret1u1", "secret1u2"}

ChainInit == DoInit(ChainSenders, Contracts, {{}})
ChainMigrate == DoMigrate(ChainSenders, Contracts, {{}})
ChainUpdateAdmin == DoUpdateAdmin(ChainSenders, Contracts, {{}})
ChainHandle == DoHandle(ChainSenders, Contracts, {{}})
ChainQuery == DoQuery(ChainSenders, Contracts, {{}})
ChainReturn == DoReturn(MaxChain)

NextChain ==
    \/ ChainInit
    \/ ChainMigrate
    \/ ChainUpdateAdmin
    \/ ChainHandle
    \/ ChainQuery
    \/ ChainReturn

SpecChain == Init /\ [][NextChain]_vars

----------------------------------------------------------------------------
(* Concurrent calls and the message counter *)

RandomSenders == {"secret1u1"}
RandomAdmins == {3}
RandomHandleBytes == {0, 1}

\* the calls the node can start in SpecRandom: every entry point, every collaborator failure
InitCalls(st) ==
    { init(Input("init", code, admin, NoProof, EmptyCanonical, 0, TRUE, faults),
           BuildEnv(st, sender, contract)) :
        sender \in RandomSenders, contract \in {c \in Contracts : StoredKey(st, c) = NoKey},
        code \in Codes, admin \in RandomAdmins, faults \in FaultSets("init") }

MigrateCalls(st) ==
    UNION { { migrate(Input("migrate", code, admin, admin_proof, EmptyCanonical, 0, TRUE, faults),
                      BuildEnv(st, sender, contract)) :
                admin_proof \in ProofInputs(st, sender, contract, admin),
                code \in Codes, faults \in FaultSets("migrate") } :
            sender \in RandomSenders, contract \in Contracts, admin \in RandomAdmins }

UpdateAdminCalls(st) ==
    UNION { { update_admin(Input("update_admin", 1, admin, admin_proof, new_admin, 0, TRUE, faults),
                           BuildEnv(st, sender, contract)) :
                admin_proof \in ProofInputs(st, sender, contract, admin),
                new_admin \in AdminBytes, faults \in FaultSets("update_admin") } :
            sender \in RandomSenders, contract \in Contracts, admin \in RandomAdmins }

HandleCalls(st) ==
    { handle(Input("handle", code, EmptyCanonical, NoProof, EmptyCanonical,
                   handle_type, encrypted, faults),
             BuildEnv(st, sender, contract)) :
        sender \in RandomSenders, contract \in Contracts, code \in Codes,
        handle_type \in RandomHandleBytes, encrypted \in BOOLEAN, faults \in FaultSets("handle") }

QueryCalls(st) ==
    { query(Input("query", code, EmptyCanonical, NoProof, EmptyCanonical, 0, TRUE, faults),
            BuildEnv(st, sender, contract)) :
        sender \in RandomSenders, contract \in Contracts, code \in Codes,
        faults \in FaultSets("query") }

RandomCalls(st) ==
    InitCalls(st) \cup MigrateCalls(st) \cup UpdateAdminCalls(st)
        \cup HandleCalls(st) \cup QueryCalls(st)

\* the steps of a call that touch the message counter, in the order the call runs them
CounterStages == {"set_random_in_env", "update_msg_counter"}
IsCounterStage(name) == name \in CounterStages
CounterSteps(r) == SelectSeq(r.trace, IsCounterStage)

\* calls in progress that have yet to run update_msg_counter
PendingUpdates(th) ==
    Cardinality({t \in Threads : \E i \in 1..Len(th[t].steps) : th[t].steps[i] = "update_msg_counter"})

\* the node invokes the enclave on an idle thread.  `random`: the feature is compiled
\* in, the contract declares ContractFeature::Random and the env carries a random value
ThreadCall(t) ==
    /\ threads[t].op = "none"
    /\ \E r \in RandomCalls(store), random \in BOOLEAN :
        /\ threads' = [threads EXCEPT ![t] =
                [ op       |-> r.in.op,
                  contract |-> r.env.contract_address,
                  height   |-> r.env.block_height,
                  steps    |-> CounterSteps(r),
                  seen     |-> NotRead,
                  random   |-> random,
                  ok       |-> r.ok,
                  out_key  |-> r.out_key ]]
        /\ msg_counter.counter + PendingUpdates(threads') <= MaxCount
    /\ UNCHANGED <<store, last, pc, msg_counter, tx>>

\* set_random_in_env: derive_random reads the counter (update_random_with_msg_counter),
\* or the random value of the env is cleared
ThreadSetRandom(t) ==
    /\ threads[t].steps # << >>
    /\ Head(threads[t].steps) = "set_random_in_env"
    /\ threads' = [threads EXCEPT ![t].steps = Tail(@),
                                  ![t].seen = IF threads[t].random
                                              THEN CounterRead(msg_counter, threads[t].height)
                                              ELSE NotRead]
    /\ UNCHANGED <<store, last, pc, msg_counter, tx>>

\* update_msg_counter(block_height)
ThreadUpdateCounter(t) ==
    /\ threads[t].steps # << >>
    /\ Head(threads[t].steps) = "update_msg_counter"
    /\ msg_counter' = update_msg_counter(msg_counter, threads[t].height)
    /\ threads' = [threads EXCEPT ![t].steps = Tail(@)]
    /\ UNCHANGED <<store, last, pc, tx>>

\* the call returns to the node, which persists the key of an InitSuccess for a fresh
\* address and of a MigrateSuccess, while it holds fewer than MaxKeys keys
ThreadReturn(t) ==
    /\ threads[t].op # "none"
    /\ threads[t].steps = << >>
    /\ store' = IF /\ threads[t].ok
                   /\ KeysStored(store) < MaxKeys
                   /\ \/ threads[t].op = "init" /\ StoredKey(store, threads[t].contract) = NoKey
                      \/ threads[t].op = "migrate"
                THEN [store EXCEPT ![threads[t].contract] = Append(@, threads[t].out_key)]
                ELSE store
    /\ threads' = [threads EXCEPT ![t] = IdleThread]
    /\ UNCHANGED <<last, pc, msg_counter, tx>>

NextRandom ==
    \E t \in Threads :
        \/ ThreadCall(t)
        \/ ThreadSetRandom(t)
        \/ ThreadUpdateCounter(t)
        \/ ThreadReturn(t)

SpecRandom == Init /\ [][NextRandom]_vars

----------------------------------------------------------------------------
(* The transaction parsers applied to wire bytes *)

\* the messages of a transaction
WireMsgs == {AnyMsg(u, b) : u \in TypeUrls, b \in MsgBytes}

\* the messages of the bodies tried: every type URL, decodable or not
BodyMsgs == {AnyMsg(u, b) : u \in TypeUrls, b \in {"valid", "malformed"}}

\* sequences of at most n elements of S
SeqUpTo(S, n) == UNION {[1..k -> S] : k \in 0..n}

\* the transaction bodies tried
WireBodies == {BodyBytes(d, ms) : d \in BOOLEAN, ms \in SeqUpTo(BodyMsgs, MaxMsgs)}

\* DirectSdkMsg::from_bytes on one message
ParseMsg ==
    /\ tx.parser = "none"
    /\ \E m \in WireMsgs :
        LET parsed == DirectSdkMsg_from_bytes(m.type_url, m.value)
        IN  tx' = [ parser |-> "DirectSdkMsg",
                    bytes  |-> SignDocBytes(TRUE, BodyBytes(TRUE, << m >>), TRUE),
                    result |-> IF parsed = ParseErr THEN TxErr ELSE TxOk(<< parsed >>) ]
    /\ UNCHANGED <<store, last, pc, msg_counter, threads>>

\* TxBody::from_bytes on the bytes of a body
ParseTxBody ==
    /\ tx.parser = "none"
    /\ \E body \in WireBodies :
        tx' = [ parser |-> "TxBody",
                bytes  |-> SignDocBytes(TRUE, body, TRUE),
                result |-> TxBody_from_bytes(body) ]
    /\ UNCHANGED <<store, last, pc, msg_counter, threads>>

\* SignDoc::from_bytes on the bytes of a sign doc
ParseSignDoc ==
    /\ tx.parser = "none"
    /\ \E d \in BOOLEAN, body \in WireBodies, auth_info_ok \in BOOLEAN :
        LET doc == SignDocBytes(d, body, auth_info_ok)
        IN  tx' = [ parser |-> "SignDoc",
                    bytes  |-> doc,
                    result |-> SignDoc_from_bytes(doc) ]
    /\ UNCHANGED <<store, last, pc, msg_counter, threads>>

\* the bytes try_from is applied to: those the node passes, and the largest u8
ByteInputs == HandleBytes \cup {255}

\* HandleType::try_from on the handle_type byte of a call
ConvertHandleType ==
    /\ tx.parser = "none"
    /\ \E v \in ByteInputs :
        tx' = [ parser |-> "HandleType", bytes |-> v, result |-> try_from(v) ]
    /\ UNCHANGED <<store, last, pc, msg_counter, threads>>

\* Option<Binary> of the env's random value: None, or Some of a value
NoRandom == << >>
SomeRandom(v) == << v >>

\* derive_random(seed, contract_key, block_height) of crate::random: a one-way
\* function of its arguments (and of the message counter, which SpecRandom follows)
derive_random(rand, contract_key, block_height) ==
    << "derive_random", rand, contract_key, block_height >>

\* update_random_with_msg_counter(block_height, contract_key, versioned_env):
\* the random value of the env afterwards
update_random_with_msg_counter(block_height, contract_key, old_random) ==
    IF old_random # NoRandom
    THEN SomeRandom(derive_random(old_random[1], contract_key, block_height))
    ELSE old_random

\* variant: an engine without the Random feature keeps the random value of the env
set_random_in_env_Keep(block_height, contract_key, supported_features, old_random) ==
    IF "Random" \in supported_features
    THEN update_random_with_msg_counter(block_height, contract_key, old_random)
    ELSE old_random

\* set_random_in_env(block_height, contract_key, engine, versioned_env): the
\* random value of the env afterwards
set_random_in_env(block_height, contract_key, supported_features, old_random) ==
    IF "Random" \in supported_features
    THEN update_random_with_msg_counter(block_height, contract_key, old_random)
    ELSE NoRandom

\* the feature sets an engine declares, the random values an env carries, the
\* contract keys and the block heights set_random_in_env is called with
FeatureSets == SUBSET {"Random", "NonRandom"}
EnvRandoms == {NoRandom, SomeRandom(1), SomeRandom(2)}
RandomKeys ==
    {generate_contract_key(to_canonical("secret1u1"), 1, calc_contract_hash(c), to_canonical(a), NoKey) :
        c \in Codes, a \in Contracts}
RandomHeights == 1..(MaxKeys + 1)

\* set_random_in_env on the env of a call
SetRandomInEnv ==
    /\ tx.parser = "none"
    /\ \E h \in RandomHeights, k \in RandomKeys, fs \in FeatureSets, old \in EnvRandoms :
        tx' = [ parser |-> "set_random_in_env",
                bytes  |-> [block_height |-> h, contract_key |-> k,
                            supported_features |-> fs, random |-> old],
                result |-> set_random_in_env(h, k, fs, old) ]
    /\ UNCHANGED <<store, last, pc, msg_counter, threads>>

\* the public keys on the wire: of the two supported types and of another,
\* decodable or not, multisig keys of up to two members and one within another
WireLeafKeys ==
    {PubKeyAny(TYPE_URL_SECP256K1_PUBKEY, TRUE, 1, << >>),
     PubKeyAny(TYPE_URL_SECP256K1_PUBKEY, TRUE, 2, << >>),
     PubKeyAny(TYPE_URL_SECP256K1_PUBKEY, FALSE, 0, << >>),
     PubKeyAny(TYPE_URL_ED25519_PUBKEY, TRUE, 1, << >>)}
WireMemberKeys ==
    {PubKeyAny(TYPE_URL_SECP256K1_PUBKEY, TRUE, 1, << >>),
     PubKeyAny(TYPE_URL_ED25519_PUBKEY, TRUE, 1, << >>)}
WireMultisigKeys ==
    {PubKeyAny(TYPE_URL_MULTISIG_LEGACY_AMINO_PUBKEY, TRUE, 1, ks) : ks \in SeqUpTo(WireMemberKeys, 2)}
        \cup {PubKeyAny(TYPE_URL_MULTISIG_LEGACY_AMINO_PUBKEY, FALSE, 0, << >>)}
WireNestedKeys ==
    {PubKeyAny(TYPE_URL_MULTISIG_LEGACY_AMINO_PUBKEY, TRUE, 2, << k >>) : k \in WireMultisigKeys}
WirePubKeys == WireLeafKeys \cup WireMultisigKeys \cup WireNestedKeys

\* the signers on the wire: without a public key, or with one of the keys above
WireSigners ==
    {RawSignerInfo(FALSE, PubKeyAny("", FALSE, 0, << >>), 0)}
        \cup {RawSignerInfo(TRUE, k, 0) : k \in WirePubKeys}
        \cup {RawSignerInfo(TRUE, PubKeyAny(TYPE_URL_SECP256K1_PUBKEY, TRUE, 1, << >>), 1)}

\* AuthInfo::from_bytes on the bytes of an auth info
ParseAuthInfo ==
    /\ tx.parser = "none"
    /\ \E d \in BOOLEAN, signers \in SeqUpTo(WireSigners, MaxSigners) :
        tx' = [ parser |-> "AuthInfo",
                bytes  |-> AuthInfoBytes(d, signers),
                result |-> AuthInfo_from_bytes(AuthInfoBytes(d, signers)) ]
    /\ UNCHANGED <<store, last, pc, msg_counter, threads>>

\* the public keys of the signers of a parsed AuthInfo, and the senders looked for
SignerKeys ==
    {Secp256k1(1), Secp256k1(2), Secp256k1(3), Multisig(1, << Secp256k1(1) >>)}
SenderAddrs == 1..4

\* AuthInfo::sender_public_key on a parsed AuthInfo, which has a signer
FindSenderKey ==
    /\ tx.parser = "none"
    /\ \E n \in 1..MaxSigners, sender \in SenderAddrs :
        \E keys \in [1..n -> SignerKeys] :
            LET signer_infos == [i \in 1..n |-> [public_key |-> keys[i], sequence |-> 0]]
            IN  tx' = [ parser |-> "sender_public_key",
                        bytes  |-> [signer_infos |-> signer_infos, sender |-> sender],
                        result |-> sender_public_key(signer_infos, sender) ]
    /\ UNCHANGED <<store, last, pc, msg_counter, threads>>

\* DirectSdkMsg::sender on a message DirectSdkMsg::from_bytes returned
MsgSender ==
    /\ tx.parser = "none"
    /\ \E m \in WireMsgs :
        LET msg == DirectSdkMsg_from_bytes(m.type_url, m.value)
        IN  /\ msg # ParseErr
            /\ tx' = [ parser |-> "DirectSdkMsg::sender",
                        bytes  |-> msg,
                        result |-> DirectSdkMsg_sender(msg) ]
    /\ UNCHANGED <<store, last, pc, msg_counter, threads>>

\* the result is consumed
TxDone ==
    /\ tx.parser # "none"
    /\ tx' = NoTx
    /\ UNCHANGED <<store, last, pc, msg_counter, threads>>

NextTx ==
    \/ ParseMsg
    \/ ParseTxBody
    \/ ParseSignDoc
    \/ ConvertHandleType
    \/ SetRandomInEnv
    \/ ParseAuthInfo
    \/ FindSenderKey
    \/ MsgSender
    \/ TxDone

SpecTx == Init /\ [][NextTx]_vars

\* shape of the state
TypeOK ==
    /\ pc \in {"idle", "returned"}
    /\ \A c \in Contracts : Len(store[c]) <= MaxChain
    /\ pc = "idle" => last = NoCall

----------------------------------------------------------------------------
(* Vocabulary of the properties *)

\* a call of entry point `op` has just returned
Returned(op) == pc = "returned" /\ last.in.op = op

\* the (contract, claimed admin) pair is an entry of the hardcoded allow-list
InAllowList(contract, admin) ==
    /\ contract \in DOMAIN HARDCODED_CONTRACT_ADMINS
    /\ from_canonical(admin) # ""
    /\ HARDCODED_CONTRACT_ADMINS[contract] = from_canonical(admin)

\* migrate: the admin authorization block was entered / was passed
MigrateAuthReached(r) == Reached(r, "is_hardcoded_contract_admin")
MigrateAuthPassed(r) ==
    /\ Passed(r, "is_hardcoded_contract_admin")
    /\ Reached(r, "admin_proof_check") => Passed(r, "admin_proof_check")

\* a < b, both stages executed
Before(r, a, b) == Reached(r, a) /\ Reached(r, b) /\ Pos(r.trace, a) < Pos(r.trace, b)

----------------------------------------------------------------------------
(* Admin authority *)

\* C1: in migrate, the zero-sentinel proof with an allow-listed (contract, admin)
\* pair passes admin authorization without a derived-proof comparison; a proof
\* that is not the sentinel passes only if it equals the derived admin proof,
\* whether or not the pair is allow-listed.
C1_AdminPrecedence ==
    (Returned("migrate") /\ MigrateAuthReached(last)) =>
        /\ (IsZeroSentinel(last.in.admin_proof)
            /\ InAllowList(last.env.contract_address, last.in.admin))
           => (MigrateAuthPassed(last) /\ ~Reached(last, "admin_proof_check"))
        /\ (~IsZeroSentinel(last.in.admin_proof) /\ MigrateAuthPassed(last))
           => last.in.admin_proof =
                generate_admin_proof(to_canonical(last.env.sender), get_og_contract_key(last.env))

\* a migrate was authorized by the hardcoded override
C1_Witness ==
    /\ Returned("migrate")
    /\ IsZeroSentinel(last.in.admin_proof)
    /\ InAllowList(last.env.contract_address, last.in.admin)
    /\ Passed(last, "is_hardcoded_contract_admin")
    /\ Reached(last, "extract_sig_info")

\* C2 as stated: outside the hardcoded override, migrate and update_admin authorize
\* iff the proof equals the admin proof of the admin / current_admin argument
\* under the latest key of the contract.
C2_ProofOfAdminArgument ==
    ((Returned("migrate") \/ Returned("update_admin")) /\ Reached(last, "admin_proof_check")) =>
        (Passed(last, "admin_proof_check")
            <=> last.in.admin_proof =
                    generate_admin_proof(last.in.admin, get_latest_contract_key(last.env)))

\* C2 amended: outside the hardcoded override, migrate and update_admin authorize
\* iff the proof equals the admin proof of the env's sender under the og contract
\* key of the env, also when the contract has a later key.
C2_ProofOfSender ==
    ((Returned("migrate") \/ Returned("update_admin")) /\ Reached(last, "admin_proof_check")) =>
        (Passed(last, "admin_proof_check")
            <=> last.in.admin_proof =
                    generate_admin_proof(to_canonical(last.env.sender), get_og_contract_key(last.env)))

\* a call on a migrated contract was authorized by the derived proof although the
\* sender is not the admin argument
C2_Witness ==
    /\ (Returned("migrate") \/ Returned("update_admin"))
    /\ Passed(last, "admin_proof_check")
    /\ to_canonical(last.env.sender) # last.in.admin
    /\ get_og_contract_key(last.env) # get_latest_contract_key(last.env)

\* C5 as stated: update_admin on an allow-listed (contract, current admin) pair
\* returns ValidationFailure and issues no proof whatever the proof bytes are,
\* while migrate with the pair and the zero sentinel passes authorization.
C5_NeverForAllowListed ==
    /\ (Returned("update_admin")
        /\ Reached(last, "is_hardcoded_contract_admin")
        /\ last.env.og_contract_key # NoKey
        /\ InAllowList(last.env.contract_address, last.in.admin))
       => (~last.ok /\ last.err = "ValidationFailure" /\ last.out_proof = NoProof)
    /\ (Returned("migrate")
        /\ MigrateAuthReached(last)
        /\ IsZeroSentinel(last.in.admin_proof)
        /\ InAllowList(last.env.contract_address, last.in.admin))
       => MigrateAuthPassed(last)

\* C5 amended: update_admin with the zero-sentinel proof on an allow-listed pair
\* fails with ValidationFailure at the hardcoded check and issues no proof; with
\* other proof bytes the allow-list is not consulted and the derived-proof check
\* decides; migrate with the pair and the sentinel passes authorization.
C5_SentinelOnly ==
    /\ (Returned("update_admin")
        /\ Reached(last, "is_hardcoded_contract_admin")
        /\ InAllowList(last.env.contract_address, last.in.admin))
       => IF IsZeroSentinel(last.in.admin_proof)
          THEN /\ ~last.ok
               /\ last.failed = "is_hardcoded_contract_admin"
               /\ last.err = "ValidationFailure"
               /\ last.out_proof = NoProof
          ELSE /\ Passed(last, "is_hardcoded_contract_admin")
               /\ Reached(last, "admin_proof_check") =>
                    (Passed(last, "admin_proof_check")
                        <=> last.in.admin_proof =
                                generate_admin_proof(to_canonical(last.env.sender),
                                                     get_og_contract_key(last.env)))
    /\ (Returned("migrate")
        /\ MigrateAuthReached(last)
        /\ IsZeroSentinel(last.in.admin_proof)
        /\ InAllowList(last.env.contract_address, last.in.admin))
       => MigrateAuthPassed(last)

\* update_admin rejected the sentinel for an allow-listed pair of an instantiated contract
C5_Witness ==
    /\ Returned("update_admin")
    /\ InAllowList(last.env.contract_address, last.in.admin)
    /\ IsZeroSentinel(last.in.admin_proof)
    /\ last.env.og_contract_key # NoKey
    /\ last.failed = "is_hardcoded_contract_admin"

----------------------------------------------------------------------------
(* Key continuity *)

\* the keys the node holds for a contract form a chain: the first has no
\* predecessor, every later one has the one before it as predecessor
IsChain(keys) ==
    \A i \in 1..Len(keys) : keys[i][5] = IF i = 1 THEN NoKey ELSE keys[i - 1]

\* C3: a migration derives its key with predecessor Some(K) where K is the key
\* output by the previous init or migrate of the contract; after init, migrate,
\* migrate the third key is derived from the second and differs from what any
\* earlier key as predecessor would give.  (migrate passes the og contract key
\* of the env as predecessor, so from the second migration on this fails.)
C3_ChainIntegrity ==
    /\ \A c \in Contracts : IsChain(store[c])
    /\ (Returned("migrate") /\ Reached(last, "generate_contract_key")) =>
        LET keys == store[last.env.contract_address]
        IN  /\ Len(keys) > 0
            /\ last.pred = keys[Len(keys)]
            /\ last.ok =>
                /\ last.out_key[5] = keys[Len(keys)]
                /\ \A i \in 1..(Len(keys) - 1) :
                      last.out_key # generate_contract_key(last.out_key[1], last.out_key[2],
                                                           last.out_key[3], last.out_key[4], keys[i])

\* the second migration of a contract succeeded: K3 was derived
C3_Witness ==
    /\ Returned("migrate")
    /\ last.ok
    /\ Len(store[last.env.contract_address]) = 2

\* C4: once a migrate has produced K2 from K1, a handle call on the contract
\* starts the engine with K2 and with no earlier key of the contract.  (handle
\* starts the engine with the og contract key; the latest key only seeds the
\* randomness of the call.)
C4_HandleResolvesLatestKey ==
    (Returned("handle") /\ Reached(last, "start_engine")) =>
        LET keys == store[last.env.contract_address]
        IN  /\ Len(keys) > 0
            /\ last.engine_key = keys[Len(keys)]
            /\ \A i \in 1..(Len(keys) - 1) : last.engine_key # keys[i]

\* an execute reached the engine on a migrated contract
C4_Witness ==
    /\ Returned("handle")
    /\ try_from(last.in.handle_type) = "HANDLE_TYPE_EXECUTE"
    /\ Reached(last, "engine_call")
    /\ Len(store[last.env.contract_address]) >= 2

----------------------------------------------------------------------------
(* Verification policy *)

\* C6: the env handle gives the engine has the null sender iff the handle type
\* is not Execute; for Execute it has the env's sender.
C6_SenderNulling ==
    (Returned("handle") /\ Reached(last, "engine_call")) =>
        LET h == try_from(last.in.handle_type)
        IN  /\ h \in HandleTypeVariants
            /\ (last.engine_sender = "") <=> (h # "HANDLE_TYPE_EXECUTE")
            /\ (h = "HANDLE_TYPE_EXECUTE") => (last.engine_sender = last.env.sender)

\* an IBC hook call reached the engine with the null sender
C6_Witness ==
    /\ Returned("handle")
    /\ Reached(last, "engine_call")
    /\ last.in.handle_type = 10
    /\ last.engine_sender = ""

KindOf(op) ==
    CASE op = "init" -> VerifyParamsType_Init
      [] op = "migrate" -> VerifyParamsType_Migrate
      [] op = "update_admin" -> VerifyParamsType_UpdateAdmin
      [] OTHER -> NoKind

\* the step that precedes verify_params in init, migrate and update_admin
StageBeforeVerify(op) ==
    IF op = "update_admin" THEN "extract_sig_info" ELSE "secret_msg_from_slice"

\* C8: init, migrate and update_admin invoke verify_params as soon as the steps
\* before it have passed, with both flags set, the env's sender and their own
\* kind; none of them succeeds without verify_params having succeeded.
C8_FullVerification ==
    (pc = "returned" /\ last.in.op \in {"init", "migrate", "update_admin"}) =>
        /\ Passed(last, StageBeforeVerify(last.in.op)) => Reached(last, "verify_params")
        /\ Reached(last, "verify_params") =>
            /\ last.vp.called
            /\ last.vp.verify_sig
            /\ last.vp.verify_input
            /\ last.vp.sender = to_canonical(last.env.sender)
            /\ last.vp.kind = KindOf(last.in.op)
        /\ last.ok => Passed(last, "verify_params")

\* a migrate succeeded (through verify_params)
C8_Witness ==
    /\ Returned("migrate")
    /\ last.ok
    /\ last.vp.called

----------------------------------------------------------------------------
(* Pipeline order *)

EngineOps == {"init", "migrate", "handle", "query"}

\* the step that resolves or derives the contract key of the call
KeyStage(op) ==
    CASE op = "init" -> "generate_contract_key"
      [] op = "migrate" -> "get_og_contract_key"
      [] OTHER -> "validate_contract_key"

\* the step that finalizes the output
OutputStage(r) ==
    IF r.in.op = "handle" /\ ~r.in.encrypted THEN "finalize_raw_output" ELSE "post_process_output"

\* a before b, when both stages were executed
Ordered(r, a, b) == (Reached(r, a) /\ Reached(r, b)) => Pos(r.trace, a) < Pos(r.trace, b)

\* C9 as stated: in init, migrate, handle and query the payload is never
\* decrypted before the verification policy has succeeded, and the stages a
\* call that reaches the engine has run are in the order: parse env, key,
\* verification, decrypt, validate, engine, output.
C9_DecryptAfterVerification ==
    (pc = "returned" /\ last.in.op \in EngineOps) =>
        /\ (last.in.op # "query" /\ Reached(last, "decrypt")) =>
            (Passed(last, "verify_params") /\ Before(last, "verify_params", "decrypt"))
        /\ Reached(last, "engine_call") =>
            /\ Before(last, "extract_base_env", KeyStage(last.in.op))
            /\ Ordered(last, KeyStage(last.in.op), "verify_params")
            /\ Ordered(last, "verify_params", "decrypt")
            /\ Ordered(last, "decrypt", "validate_msg")
            /\ Ordered(last, "validate_msg", "engine_call")
        /\ last.ok => Before(last, "engine_call", OutputStage(last))

\* C9 amended: init and migrate run parse env, key, verify_params, decrypt,
\* validate_msg, engine, output in this order and never decrypt before
\* verify_params succeeded; handle decrypts an encrypted payload while parsing
\* the message, before verify_params, and runs validate_msg after verify_params
\* succeeded; query runs no verification policy; in all four the key step
\* follows env parsing, validate_msg (when it runs) precedes the engine and the
\* engine precedes output finalization.
C9_PipelineOrder ==
    (pc = "returned" /\ last.in.op \in EngineOps) =>
        /\ last.in.op \in {"init", "migrate"} =>
            /\ Reached(last, "decrypt") =>
                (Passed(last, "verify_params") /\ Before(last, "verify_params", "decrypt"))
            /\ Reached(last, "engine_call") =>
                /\ Before(last, KeyStage(last.in.op), "verify_params")
                /\ Before(last, "decrypt", "validate_msg")
                /\ Passed(last, "validate_msg")
        /\ last.in.op = "handle" =>
            /\ (Reached(last, "verify_params") /\ last.in.encrypted) =>
                (Passed(last, "decrypt") /\ Before(last, "decrypt", "verify_params"))
            /\ Reached(last, "validate_msg") =>
                (Passed(last, "verify_params") /\ Before(last, "verify_params", "validate_msg"))
            /\ Reached(last, "engine_call") =>
                /\ Passed(last, "verify_params")
                /\ Before(last, KeyStage("handle"), "verify_params")
                /\ last.in.encrypted <=> Reached(last, "validate_msg")
        /\ last.in.op = "query" =>
            /\ ~Reached(last, "verify_params")
            /\ Reached(last, "engine_call") => Before(last, "decrypt", "validate_msg")
        /\ Reached(last, "engine_call") =>
            /\ Before(last, "extract_base_env", KeyStage(last.in.op))
            /\ Reached(last, "validate_msg") =>
                (Passed(last, "validate_msg") /\ Before(last, "validate_msg", "engine_call"))
        /\ last.ok => Before(last, "engine_call", OutputStage(last))

\* an encrypted execute reached the engine: it was decrypted before verify_params
C9_Witness ==
    /\ Returned("handle")
    /\ last.in.encrypted
    /\ Reached(last, "engine_call")
    /\ Before(last, "decrypt", "verify_params")

\* C10: the engine is started in init, migrate and handle only after
\* verify_params succeeded, and in init, migrate, query and handle of an
\* encrypted message only after decryption and validate_msg succeeded; a call
\* in which validate_msg fails returns that error, no output, and never starts
\* the engine.
C10_EngineGated ==
    (pc = "returned" /\ last.in.op \in EngineOps) =>
        /\ (last.in.op # "query" /\ Reached(last, "start_engine")) =>
            (Passed(last, "verify_params") /\ Before(last, "verify_params", "start_engine"))
        /\ ((last.in.op # "handle" \/ last.in.encrypted) /\ Reached(last, "start_engine")) =>
            /\ Passed(last, "decrypt")
            /\ Passed(last, "validate_msg")
            /\ Before(last, "validate_msg", "start_engine")
        /\ last.failed = "validate_msg" =>
            /\ ~last.ok
            /\ last.err = "ValidationFailure"
            /\ ~last.output
            /\ ~Reached(last, "start_engine")
            /\ ~Reached(last, "engine_call")

\* validate_msg rejected the payload of an encrypted handle call
C10_Witness ==
    /\ Returned("handle")
    /\ last.in.encrypted
    /\ last.failed = "validate_msg"
    /\ Passed(last, "decrypt")

----------------------------------------------------------------------------
(* Message counter under concurrency *)

\* the thread runs an init, migrate or handle call in which derive_random has read the counter
HasObserved(t) ==
    /\ threads[t].op \in {"init", "migrate", "handle"}
    /\ threads[t].seen # NotRead

\* C11: two init/migrate/handle calls that run concurrently at the same block
\* height never derive their randomness from the same value of the message
\* counter.  (The read in set_random_in_env and the increment in
\* update_msg_counter are two separate steps of a call, so two calls can both
\* read before either increments.)
C11_DistinctCounterValues ==
    \A t1 \in Threads, t2 \in Threads :
        (t1 # t2 /\ HasObserved(t1) /\ HasObserved(t2)
            /\ threads[t1].height = threads[t2].height)
        => threads[t1].seen # threads[t2].seen

----------------------------------------------------------------------------
(* Results of init and migrate *)

\* C12: a successful init derives its contract key with no predecessor from
\* the sender, the block height, the hash of the contract code and the contract
\* address, and returns the output, that key and the admin proof of the admin
\* argument under that key.
C12_InitResult ==
    (Returned("init") /\ last.ok) =>
        LET K1 == generate_contract_key(to_canonical(last.env.sender), last.env.block_height,
                                        calc_contract_hash(last.in.code),
                                        to_canonical(last.env.contract_address), NoKey)
        IN  /\ last.pred = NoKey
            /\ last.output
            /\ last.out_key = K1
            /\ last.out_proof = generate_admin_proof(last.in.admin, K1)

\* a successful init whose admin argument is not the sender of the message
C12_Witness ==
    /\ Returned("init")
    /\ last.ok
    /\ last.in.admin # to_canonical(last.env.sender)
    /\ last.out_key # NoKey

\* C13: a successful migrate returns a new key derived from the sender, the
\* block height, the hash of the new code, the contract address and the key the
\* contract had before the call (its latest key) as predecessor; the new key
\* differs from that key, and the proof returned is the migration proof from
\* that key to the new key.
C13_MigrateResult ==
    (Returned("migrate") /\ last.ok) =>
        LET old_key == get_latest_contract_key(last.env)
            new_key == generate_contract_key(to_canonical(last.env.sender), last.env.block_height,
                                             calc_contract_hash(last.in.code),
                                             to_canonical(last.env.contract_address), old_key)
        IN  /\ last.output
            /\ last.out_key = new_key
            /\ last.out_key # old_key
            /\ last.out_proof = generate_contract_key_proof(to_canonical(last.env.contract_address),
                                                           calc_contract_hash(last.in.code),
                                                           old_key, new_key)

----------------------------------------------------------------------------
(* Admin authorization of migrate and update_admin *)

\* the hardcoded override holds for the call
OverrideHolds(r) ==
    is_hardcoded_contract_admin(to_canonical(r.env.contract_address), r.in.admin, r.in.admin_proof)

\* the caller's proof is the admin proof derived for the sender under the contract key of the env
DerivedProofMatches(r) ==
    r.in.admin_proof = generate_admin_proof(to_canonical(r.env.sender), get_og_contract_key(r.env))

\* what an unauthorized call must not have got to
GatedStages ==
    {"extract_sig_info", "verify_params", "decrypt", "generate_contract_key", "start_engine",
     "engine_call", "generate_admin_proof", "generate_contract_key_proof"}

\* C14: a migrate or update_admin call for which neither the hardcoded override
\* nor the derived-proof match holds fails; once the env has been read it fails
\* at the proof comparison with ValidationFailure; and it never gets to signature
\* verification, decryption, successor-key derivation, the engine or the
\* issuance of a proof.
C14_UnauthorizedRejected ==
    (pc = "returned" /\ last.in.op \in {"migrate", "update_admin"}
        /\ ~OverrideHolds(last) /\ ~DerivedProofMatches(last)) =>
        /\ ~last.ok
        /\ Passed(last, "get_og_contract_key") =>
            (last.failed = "admin_proof_check" /\ last.err = "ValidationFailure")
        /\ \A g \in GatedStages : ~Reached(last, g)
        /\ last.out_key = NoKey
        /\ last.out_proof = NoProof

\* a migrate of an instantiated contract rejected at the proof comparison,
\* the caller presenting an admin proof that is not the sender's
C14_Witness ==
    /\ Returned("migrate")
    /\ get_og_contract_key(last.env) # NoKey
    /\ ~OverrideHolds(last)
    /\ ~DerivedProofMatches(last)
    /\ last.in.admin_proof[1] = "admin"
    /\ last.failed = "admin_proof_check"

\* what update_admin has no part in
EngineAndKeyStages ==
    {"start_engine", "engine_call", "generate_contract_key", "decrypt", "parse_message",
     "set_random_in_env", "update_msg_counter", "flush_cache"}

\* C15: update_admin never starts or invokes the engine, never derives a
\* contract key, never decrypts a payload and never advances the per-block
\* message counter, whether it succeeds or fails.
C15_UpdateAdminPure ==
    Returned("update_admin") =>
        /\ \A g \in EngineAndKeyStages : ~Reached(last, g)
        /\ last.engine_key = NoKey
        /\ last.engine_sender = ""
        /\ last.out_key = NoKey
        /\ ~last.output

\* update_admin ran to the end and issued a proof
C15_Witness ==
    /\ Returned("update_admin")
    /\ last.ok
    /\ Passed(last, "verify_params")
    /\ last.out_proof # NoProof

\* C16: update_admin returns a new admin proof only after the current-admin
\* proof comparison and verify_params of kind UpdateAdmin have both succeeded,
\* and the proof returned is the admin proof of the new_admin argument under the
\* contract key read from the env; an empty new_admin is treated the same way.
C16_NewAdminProof ==
    (Returned("update_admin") /\ last.out_proof # NoProof) =>
        /\ last.ok
        /\ Passed(last, "admin_proof_check")
        /\ Passed(last, "verify_params")
        /\ Before(last, "admin_proof_check", "verify_params")
        /\ Before(last, "verify_params", "generate_admin_proof")
        /\ last.vp.kind = VerifyParamsType_UpdateAdmin
        /\ last.vp.new_admin = last.in.new_admin
        /\ last.out_proof = generate_admin_proof(last.in.new_admin, get_og_contract_key(last.env))

\* the admin is cleared: new_admin is the empty address and the current admin is not
C16_Witness ==
    /\ Returned("update_admin")
    /\ last.ok
    /\ last.in.new_admin = EmptyCanonical
    /\ last.in.admin # EmptyCanonical
    /\ last.out_proof = generate_admin_proof(EmptyCanonical, get_og_contract_key(last.env))

----------------------------------------------------------------------------
(* query *)

\* what query has no part in
QueryForbiddenStages ==
    {"generate_contract_key", "set_random_in_env", "update_msg_counter", "flush_cache",
     "verify_params", "generate_admin_proof", "generate_contract_key_proof"}

\* C17: query never derives a contract key, never advances the message counter
\* and never flushes the engine cache; it returns output bytes only, no key and
\* no proof; and its output is post-processed with an empty contract address,
\* an empty contract hash and no reply params.
C17_QueryReadOnly ==
    Returned("query") =>
        /\ \A g \in QueryForbiddenStages : ~Reached(last, g)
        /\ last.pred = NoKey
        /\ last.out_key = NoKey
        /\ last.out_proof = NoProof
        /\ last.output = last.ok
        /\ Reached(last, "post_process_output") =>
            /\ Passed(last, "engine_call")
            /\ last.post_process.contract_address = EmptyCanonical
            /\ last.post_process.contract_hash = NoHash
            /\ last.post_process.reply_params = "None"
            /\ last.post_process.sender = EmptyCanonical
            /\ last.post_process.is_query_output

\* a query that ran the engine and returned its post-processed output
C17_Witness ==
    /\ Returned("query")
    /\ last.ok
    /\ last.output
    /\ Passed(last, "post_process_output")
    /\ last.engine_key # NoKey

----------------------------------------------------------------------------
(* handle: the handle_type byte *)

\* the values of the handle_type byte that name a HandleType
RecognizedHandleBytes == 0..10

\* C18: a handle call that gets to the conversion of a handle_type byte outside
\* 0..=10 fails with UnsupportedOperation, an error other than the one reported
\* for a malformed env, msg or sig_info, and does not invoke the engine.
C18_UnsupportedOperation ==
    (Returned("handle") /\ last.in.handle_type \notin RecognizedHandleBytes
        /\ Reached(last, "try_from")) =>
        /\ ~last.ok
        /\ last.failed = "try_from"
        /\ last.err = "UnsupportedOperation"
        /\ last.err # "FailedToDeserialize"
        /\ ~Reached(last, "start_engine")
        /\ ~Reached(last, "engine_call")

----------------------------------------------------------------------------
(* Failures within a call *)

\* no stage appears twice among the stages executed
NoStageTwice(r) ==
    \A i \in 1..Len(r.trace), j \in 1..Len(r.trace) : i # j => r.trace[i] # r.trace[j]

\* a failed call ended at the stage that failed and reports its error; a call
\* that succeeded reports none
EndsAtFailure(r) ==
    /\ r.ok <=> r.failed = ""
    /\ r.ok => r.err = ""
    /\ ~r.ok =>
        /\ r.err # ""
        /\ Len(r.trace) > 0
        /\ r.trace[Len(r.trace)] = r.failed

\* a collaborator that failed during the call is the stage the call ended at
CollaboratorFailuresSurface(r) ==
    \A f \in r.in.faults : Reached(r, f) => r.failed = f

\* the sender of the env was converted and is not a valid address
SenderConversionFailed(r) ==
    Reached(r, "to_canonical_sender") /\ to_canonical(r.env.sender) = AddrErr

\* C19 as stated: within a call every stage is executed at most once, and the
\* first stage that fails ends the call with that failure returned: no failure
\* is replaced by a default, no stage runs after a failure, nothing is retried.
C19_FirstFailureEndsCall ==
    pc = "returned" =>
        /\ NoStageTwice(last)
        /\ EndsAtFailure(last)
        /\ CollaboratorFailuresSurface(last)
        /\ SenderConversionFailed(last) => last.failed = "to_canonical_sender"
        /\ last.swallowed = {}

\* C19 as the code has it: as above, except that handle replaces a sender it
\* cannot convert by the empty canonical address and goes on; that is the only
\* failure not returned, and verify_params then gets the empty address.
C19_FailuresEndCallButSender ==
    pc = "returned" =>
        /\ NoStageTwice(last)
        /\ EndsAtFailure(last)
        /\ CollaboratorFailuresSurface(last)
        /\ (SenderConversionFailed(last) /\ last.in.op # "handle") =>
            last.failed = "to_canonical_sender"
        /\ (SenderConversionFailed(last) /\ last.in.op = "handle") =>
            /\ last.swallowed = {"to_canonical_sender"}
            /\ last.failed # "to_canonical_sender"
            /\ Reached(last, "verify_params") /\ last.vp.sender = EmptyCanonical
        /\ ~SenderConversionFailed(last) => last.swallowed = {}

\* a handle call went on after the conversion of its sender failed, and a
\* later collaborator failure ended it
C19_Witness ==
    /\ Returned("handle")
    /\ SenderConversionFailed(last)
    /\ Passed(last, "verify_params")
    /\ last.in.faults # {}
    /\ ~last.ok
    /\ last.failed \in last.in.faults

----------------------------------------------------------------------------
(* Keys and proofs are returned by successful calls only *)

\* the stages a call of init or migrate must have passed before it returns a key
SuccessStages ==
    {"verify_params", "decrypt", "validate_msg", "engine_call", "flush_cache", "post_process_output"}

\* the stage that builds the proof of the result
ProofStage(op) == IF op = "init" THEN "generate_admin_proof" ELSE "generate_contract_key_proof"

\* C20: init and migrate return a contract key and a proof only in a success
\* result, after verification, decryption, cross-validation, the engine call,
\* the cache flush and output post-processing have all succeeded; a failed call
\* returns an error and carries neither key, proof nor output.
C20_KeyOnlyOnSuccess ==
    (pc = "returned" /\ last.in.op \in {"init", "migrate"}) =>
        /\ (last.out_key # NoKey \/ last.out_proof # NoProof \/ Reached(last, ProofStage(last.in.op))) =>
            /\ last.ok
            /\ last.out_key # NoKey
            /\ last.out_proof # NoProof
            /\ \A g \in SuccessStages :
                    Passed(last, g) /\ Before(last, g, ProofStage(last.in.op))
            /\ \A f \in last.in.faults : ~Reached(last, f)
        /\ ~last.ok =>
            /\ last.err # ""
            /\ last.out_key = NoKey
            /\ last.out_proof = NoProof
            /\ ~last.output

\* a migrate that succeeded and returned its new key with the migration proof
C20_Witness ==
    /\ Returned("migrate")
    /\ last.ok
    /\ last.out_key # NoKey
    /\ last.out_proof[1] = "migration"
    /\ \A g \in SuccessStages : Passed(last, g)

----------------------------------------------------------------------------
(* Engine errors and cache flush *)

\* the stages that finalize the output of a call
OutputStages ==
    {"post_process_output", "manipulate_callback_sig_for_plaintext", "set_all_logs_to_plaintext",
     "finalize_raw_output", "generate_admin_proof", "generate_contract_key_proof"}

\* C21: in init, migrate and handle, when the engine succeeds and the flush of
\* its cache fails the call returns FailedFunctionCall and no output; when the
\* engine itself returns an error the call returns that error and the cache is
\* never flushed.
C21_FlushAndEngineErrors ==
    (pc = "returned" /\ last.in.op \in {"init", "migrate", "handle"}) =>
        /\ (Reached(last, "flush_cache") /\ F(last.in, "flush_cache")) =>
            /\ Passed(last, "engine_call")
            /\ ~last.ok
            /\ last.failed = "flush_cache"
            /\ last.err = "FailedFunctionCall"
            /\ ~last.output
            /\ \A g \in OutputStages : ~Reached(last, g)
        /\ (Reached(last, "engine_call") /\ F(last.in, "engine_call")) =>
            /\ ~last.ok
            /\ last.failed = "engine_call"
            /\ last.err = "EngineError"
            /\ ~last.output
            /\ ~Reached(last, "flush_cache")
        /\ Reached(last, "flush_cache") => Passed(last, "engine_call")

\* the engine of a handle call succeeded and the flush of its cache failed
C21_Witness ==
    /\ Returned("handle")
    /\ Passed(last, "engine_call")
    /\ last.failed = "flush_cache"
    /\ last.err = "FailedFunctionCall"

----------------------------------------------------------------------------
(* Malformed env and sig_info *)

\* the entry points that read query_depth from the env
DepthOps == {"init", "migrate", "handle", "query"}

\* the call failed with FailedToDeserialize and never started the engine
DeserializeFailure(r) ==
    /\ ~r.ok
    /\ r.err = "FailedToDeserialize"
    /\ ~Reached(r, "start_engine")
    /\ ~Reached(r, "engine_call")

\* env bytes that do not parse as a BaseEnv fail the call at its first step
BaseEnvRejected(r) ==
    F(r.in, "extract_base_env") =>
        /\ DeserializeFailure(r)
        /\ r.trace = << "extract_base_env" >>

\* sig_info bytes that do not parse fail the call when it gets to them
SigInfoRejected(r) ==
    (F(r.in, "extract_sig_info") /\ Reached(r, "extract_sig_info")) =>
        /\ DeserializeFailure(r)
        /\ r.failed = "extract_sig_info"

\* C22 as stated: a call whose env does not parse as a BaseEnv, or (init,
\* migrate, handle, query) lacks an integer query_depth, fails with
\* FailedToDeserialize and nothing else; a call whose sig_info does not parse
\* fails with FailedToDeserialize when the earlier stages passed; the engine
\* is never started.
C22_MalformedEnvFailsToDeserialize ==
    pc = "returned" =>
        /\ BaseEnvRejected(last)
        /\ (last.in.op \in DepthOps /\ F(last.in, "extract_query_depth")) =>
            DeserializeFailure(last)
        /\ SigInfoRejected(last)

\* C22 as the code has it: as above, except that an env without query_depth
\* fails with FailedToDeserialize only when the call gets to reading it, that
\* is when the env parsed as a BaseEnv and the block info check passed; a call
\* rejected by that check before returns ValidationFailure.  Either way the
\* call fails and the engine is never started.
C22_MalformedInputRejected ==
    pc = "returned" =>
        /\ BaseEnvRejected(last)
        /\ (last.in.op \in DepthOps /\ F(last.in, "extract_query_depth")) =>
            /\ ~last.ok
            /\ ~Reached(last, "start_engine")
            /\ ~Reached(last, "engine_call")
            /\ Reached(last, "extract_query_depth") =>
                (DeserializeFailure(last) /\ last.failed = "extract_query_depth")
            /\ ~Reached(last, "extract_query_depth") =>
                last.failed \in {"extract_base_env", "verify_block_info"}
        /\ SigInfoRejected(last)

\* an init whose env lacks query_depth and does not pass the block info check
C22_Witness ==
    /\ Returned("init")
    /\ F(last.in, "extract_query_depth")
    /\ ~F(last.in, "extract_base_env")
    /\ last.failed = "verify_block_info"
    /\ last.err = "ValidationFailure"

----------------------------------------------------------------------------
(* The env handed to the engine *)

\* extract_base_env ran, once
ParsedOnce(r) ==
    Cardinality({i \in 1..Len(r.trace) : r.trace[i] = "extract_base_env"}) = 1

\* C23 as stated: within a call the env is parsed once, and the env handed to
\* the engine differs from the parsed one by the contract hash only.
C23_EnvOnlyAnnotatedWithHash ==
    (pc = "returned" /\ Reached(last, "engine_call")) =>
        /\ ParsedOnce(last)
        /\ last.engine_env_changes = {"contract_hash"}
        /\ last.engine_sender = last.env.sender

\* C23 as the code has it: the env is parsed once, and the env handed to the
\* engine differs from the parsed one by the contract hash, by the random
\* value in init, migrate and handle, and by the message sender, set to the
\* empty string, in handle calls of every kind but Execute; nothing else.
C23_EnvAnnotations ==
    (pc = "returned" /\ Reached(last, "engine_call")) =>
        /\ ParsedOnce(last)
        /\ last.engine_env_changes \subseteq {"contract_hash", "random", "msg_sender"}
        /\ "contract_hash" \in last.engine_env_changes
        /\ "random" \in last.engine_env_changes <=> Reached(last, "set_random_in_env")
        /\ "random" \in last.engine_env_changes <=> last.in.op # "query"
        /\ "msg_sender" \in last.engine_env_changes <=>
                (last.in.op = "handle" /\ try_from(last.in.handle_type) # "HANDLE_TYPE_EXECUTE")
        /\ "msg_sender" \in last.engine_env_changes => last.engine_sender = ""
        /\ "msg_sender" \notin last.engine_env_changes => last.engine_sender = last.env.sender

\* the engine of a handle call of a kind other than Execute ran with the sender blanked
C23_Witness ==
    /\ Returned("handle")
    /\ Reached(last, "engine_call")
    /\ last.engine_env_changes = {"contract_hash", "random", "msg_sender"}
    /\ last.engine_sender # last.env.sender

----------------------------------------------------------------------------
(* Determinism of the key init returns *)

\* the init calls that agree with call r on sender, block height, contract code
\* and contract address (same env, same code) and differ in the admin argument
\* and in what msg, sig_info and the rest of the env make the collaborators do
InitVariants(r) ==
    { init(Input("init", r.in.code, admin, NoProof, EmptyCanonical, 0, TRUE, faults), r.env) :
        admin \in AdminBytes, faults \in FaultSets("init") }

\* C24: two successful init calls that agree on sender, block height, contract
\* code and contract address return the same contract key whatever their other
\* inputs are, and the same admin proof when they also agree on the admin.
C24_InitKeyDeterminism ==
    (Returned("init") /\ last.ok) =>
        \A v \in InitVariants(last) :
            v.ok =>
                /\ v.out_key = last.out_key
                /\ v.in.admin = last.in.admin => v.out_proof = last.out_proof

\* a successful init for which another admin argument gives the same key and
\* another admin proof, and other inputs make the call fail without a key
C24_Witness ==
    /\ Returned("init")
    /\ last.ok
    /\ \E v \in InitVariants(last) :
            /\ v.ok
            /\ v.in.admin # last.in.admin
            /\ v.out_key = last.out_key
            /\ v.out_proof # last.out_proof
    /\ \E v \in InitVariants(last) : ~v.ok /\ v.out_key = NoKey

----------------------------------------------------------------------------
(* The static tables *)

\* canonical addresses and code hashes a caller can ask about; 5 has no human form
LookupAddrs == {EmptyCanonical, 1, 2, 3, 4, 5}
LookupHashes == {calc_contract_hash(c) : c \in 0..(MaxCode + 1)}
LookupProofs == {ZeroProof(HASH_SIZE), ZeroProof(HASH_SIZE - 1), generate_admin_proof(3, NoKey)}

\* the table maps the human address to the value
Maps(table, human, value) == human \in DOMAIN table /\ table[human] = value

\* C25: after any sequence of calls, a lookup made between two calls answers
\* from the tables as written: is_code_hash_allowed(addr, h) is true exactly
\* when addr has a human form that the code-hash table maps to h, and
\* is_hardcoded_contract_admin is true exactly for the sentinel proof with a
\* contract and an admin whose human forms the admin table pairs; the answer a
\* migrate call got from the admin table is the answer the table gives after it.
C25_TablesReadOnly ==
    /\ pc = "idle" =>
        /\ \A a \in LookupAddrs, h \in LookupHashes :
                is_code_hash_allowed(a, h) <=>
                    \E c \in HumanAddrs : to_canonical(c) = a /\ Maps(ALLOWED_CONTRACT_CODE_HASH, c, h)
        /\ \A a \in LookupAddrs, b \in LookupAddrs, p \in LookupProofs :
                is_hardcoded_contract_admin(a, b, p) <=>
                    /\ p = ZeroProof(HASH_SIZE)
                    /\ \E c \in HumanAddrs, u \in HumanAddrs :
                            /\ to_canonical(c) = a
                            /\ to_canonical(u) = b
                            /\ Maps(HARDCODED_CONTRACT_ADMINS, c, u)
    /\ (Returned("migrate") /\ Reached(last, "is_hardcoded_contract_admin")) =>
            (Reached(last, "admin_proof_check") <=> ~OverrideHolds(last))

\* after an init and a migrate authorized by the admin table the tables still
\* answer as at the start
C25_Witness ==
    /\ Returned("migrate")
    /\ last.ok
    /\ OverrideHolds(last)
    /\ ~Reached(last, "admin_proof_check")
    /\ KeysStored(store) > 0
    /\ is_code_hash_allowed(1, 101)
    /\ ~is_code_hash_allowed(1, 102)
    /\ ~is_code_hash_allowed(2, 101)

----------------------------------------------------------------------------
(* When a call advances the message counter *)

\* how many times the call ran update_msg_counter
CounterAdvances(r) ==
    Cardinality({i \in 1..Len(r.trace) : r.trace[i] = "update_msg_counter"})

\* the checks that precede the engine
VerificationStages == {"verify_params", "validate_msg", "decrypt", "admin_proof_check"}

\* C26: an init, migrate or handle call advances the per-block message counter
\* exactly once when it gets to the engine, after every verification and
\* validation step it ran has succeeded and immediately before the engine
\* entry point is invoked; query, update_admin and every call that fails before
\* the engine is invoked do not advance it.
C26_CounterAdvancedOnceBeforeEngine ==
    pc = "returned" =>
        /\ last.in.op \in {"init", "migrate", "handle"} =>
            /\ CounterAdvances(last) = (IF Reached(last, "engine_call") THEN 1 ELSE 0)
            /\ Reached(last, "update_msg_counter") =>
                /\ Pos(last.trace, "engine_call") = Pos(last.trace, "update_msg_counter") + 1
                /\ Passed(last, "verify_params")
                /\ Passed(last, "start_engine")
                /\ \A g \in VerificationStages :
                        Reached(last, g) =>
                            (Passed(last, g) /\ Before(last, g, "update_msg_counter"))
        /\ last.in.op \in {"query", "update_admin"} => CounterAdvances(last) = 0

\* a migrate counted in its block although its engine call then failed
C26_Witness ==
    /\ Returned("migrate")
    /\ CounterAdvances(last) = 1
    /\ last.failed = "engine_call"
    /\ Passed(last, "validate_msg")

----------------------------------------------------------------------------
(* handle: the message handed to the engine *)

\* C27: in handle the engine gets the result of validate_msg exactly when the
\* inbound message was encrypted; a plaintext message, which only a kind other
\* than Execute can be, skips validate_msg, goes to the engine as parsed, and
\* has no reply params.
C27_EngineMessage ==
    (Returned("handle") /\ Reached(last, "engine_call")) =>
        /\ last.engine_msg = "validated_msg" <=> last.in.encrypted
        /\ last.in.encrypted =>
            /\ Passed(last, "validate_msg")
            /\ Before(last, "validate_msg", "engine_call")
            /\ last.reply_params = "reply_params"
        /\ ~last.in.encrypted =>
            /\ try_from(last.in.handle_type) \in HandleTypeVariants \ {"HANDLE_TYPE_EXECUTE"}
            /\ ~Reached(last, "validate_msg")
            /\ ~Reached(last, "decrypt")
            /\ last.engine_msg = "decrypted_msg"
            /\ last.reply_params = "None"
            /\ ~Reached(last, "post_process_output")

\* a plaintext handle call of a kind other than Execute got to the engine and succeeded
C27_Witness ==
    /\ Returned("handle")
    /\ ~last.in.encrypted
    /\ last.ok
    /\ last.engine_msg = "decrypted_msg"
    /\ Passed(last, "finalize_raw_output")

----------------------------------------------------------------------------
(* HandleType::try_from *)

\* HandleType::try_from has returned
Converted == tx.parser = "HandleType"

\* C28: try_from maps the bytes 0..10 one to one onto the 11 variants of
\* HandleType, each byte to the variant with that discriminant, and returns an
\* error for every byte above 10.
C28_TryFromBijection ==
    /\ Len(HandleType) = 11
    /\ Cardinality(HandleTypeVariants) = 11
    /\ HandleTypeErr \notin HandleTypeVariants
    /\ Converted =>
        /\ tx.bytes <= 10 => tx.result = HandleType[tx.bytes + 1]
        /\ tx.bytes > 10 => tx.result = HandleTypeErr

\* the byte of the last kind has been converted
C28_Witness ==
    /\ Converted
    /\ tx.bytes = 10
    /\ tx.result = "HANDLE_TYPE_IBC_WASM_HOOKS_OUTGOING_TRANSFER_TIMEOUT"

----------------------------------------------------------------------------
(* DirectSdkMsg::from_bytes *)

\* the variant of DirectSdkMsg each recognized type URL stands for
VariantOfUrl ==
    [u \in RecognizedUrls |->
        CASE u = "/secret.compute.v1beta1.MsgInstantiateContract" -> "MsgInstantiateContract"
          [] u = "/secret.compute.v1beta1.MsgExecuteContract" -> "MsgExecuteContract"
          [] u = "/secret.compute.v1beta1.MsgMigrateContract" -> "MsgMigrateContract"
          [] u = "/secret.compute.v1beta1.MsgUpdateAdmin" -> "MsgUpdateAdmin"
          [] u = "/secret.compute.v1beta1.MsgClearAdmin" -> "MsgClearAdmin"
          [] u = "/ibc.core.channel.v1.MsgRecvPacket" -> "MsgRecvPacket"
          [] u = "/ibc.core.channel.v1.MsgAcknowledgement" -> "MsgAcknowledgement"
          [] u = "/ibc.core.channel.v1.MsgTimeout" -> "MsgTimeout"]

\* the type URLs of the IBC messages
IbcUrls ==
    {"/ibc.core.channel.v1.MsgRecvPacket", "/ibc.core.channel.v1.MsgAcknowledgement",
     "/ibc.core.channel.v1.MsgTimeout"}

\* DirectSdkMsg::from_bytes has returned
ParsedMsg == tx.parser = "DirectSdkMsg"

\* the message it was given
GivenMsg == tx.bytes.body_bytes.messages[1]

\* C29: DirectSdkMsg::from_bytes of a recognized type URL returns that URL's
\* own variant or FailedToDeserialize, and FailedToDeserialize when an IBC
\* message has no packet; of any other type URL it returns Ok(Other) whatever
\* the bytes are; the eight URLs stand for eight different variants, so no
\* URL yields the variant of another.
C29_VariantByTypeUrl ==
    /\ \A u \in RecognizedUrls, w \in RecognizedUrls :
            u # w => VariantOfUrl[u] # VariantOfUrl[w]
    /\ \A u \in RecognizedUrls : VariantOfUrl[u] \notin {"Other", "Err"}
    /\ ParsedMsg =>
        /\ GivenMsg.type_url \in RecognizedUrls =>
                \/ tx.result = TxErr
                \/ /\ tx.result.ok
                   /\ Len(tx.result.messages) = 1
                   /\ tx.result.messages[1].variant = VariantOfUrl[GivenMsg.type_url]
        /\ (GivenMsg.type_url \in IbcUrls /\ GivenMsg.value = "no_packet") =>
                tx.result = TxErr
        /\ GivenMsg.type_url \notin RecognizedUrls =>
                tx.result = TxOk(<< Other >>)

\* a well-formed clear-admin message has been parsed into MsgClearAdmin
C29_Witness ==
    /\ ParsedMsg
    /\ GivenMsg.type_url = "/secret.compute.v1beta1.MsgClearAdmin"
    /\ GivenMsg.value = "valid"
    /\ tx.result.ok
    /\ tx.result.messages[1].variant = "MsgClearAdmin"

----------------------------------------------------------------------------
(* TxBody::from_bytes *)

\* TxBody::from_bytes has returned, by itself or within SignDoc::from_bytes
ParsedBody ==
    \/ tx.parser = "TxBody"
    \/ tx.parser = "SignDoc" /\ tx.bytes.decodes

\* the messages on the wire
WireMessages == tx.bytes.body_bytes.messages

\* message i of the body does not parse
Unparsable(i) ==
    DirectSdkMsg_from_bytes(WireMessages[i].type_url, WireMessages[i].value) = ParseErr

\* C30: when the bytes of a transaction body decode, TxBody::from_bytes fails
\* with FailedToDeserialize if any of its messages fails to parse; otherwise
\* its result holds one DirectSdkMsg per wire message, in the order of the
\* wire, an unrecognized message appearing as Other. SignDoc::from_bytes
\* fails whenever its body fails, and a sign doc it accepts holds that body.
C30_BodyAllOrNothingInOrder ==
    (ParsedBody /\ tx.bytes.body_bytes.decodes) =>
        /\ (\E i \in 1..Len(WireMessages) : Unparsable(i)) => tx.result = TxErr
        /\ (tx.parser = "TxBody" /\ \A i \in 1..Len(WireMessages) : ~Unparsable(i)) =>
                tx.result.ok
        /\ tx.result.ok =>
            /\ Len(tx.result.messages) = Len(WireMessages)
            /\ \A i \in 1..Len(WireMessages) :
                /\ WireMessages[i].type_url \in RecognizedUrls =>
                        /\ tx.result.messages[i].variant = VariantOfUrl[WireMessages[i].type_url]
                        /\ tx.result.messages[i].payload = WireMessages[i].value
                /\ WireMessages[i].type_url \notin RecognizedUrls =>
                        tx.result.messages[i] = Other

\* a body of an execute message followed by an unrecognized one has been parsed
C30_Witness ==
    /\ tx.parser = "TxBody"
    /\ Len(WireMessages) = 2
    /\ WireMessages[1].type_url = "/secret.compute.v1beta1.MsgExecuteContract"
    /\ WireMessages[2].type_url \notin RecognizedUrls
    /\ tx.result.ok
    /\ tx.result.messages[1].variant = "MsgExecuteContract"
    /\ tx.result.messages[2] = Other

----------------------------------------------------------------------------
(* set_random_in_env *)

\* set_random_in_env has returned
RandomSet == tx.parser = "set_random_in_env"

\* C31: after set_random_in_env the random value of the env is None whenever
\* the engine does not declare the Random feature; when it does, a random
\* value the env carried is replaced by derive_random of it, the contract key
\* and the block height, and an env that carried none still carries none.
C31_RandomByCapability ==
    RandomSet =>
        /\ "Random" \notin tx.bytes.supported_features => tx.result = NoRandom
        /\ ("Random" \in tx.bytes.supported_features /\ tx.bytes.random # NoRandom) =>
                /\ tx.result # NoRandom
                /\ tx.result[1] = derive_random(tx.bytes.random[1], tx.bytes.contract_key,
                                                 tx.bytes.block_height)
        /\ ("Random" \in tx.bytes.supported_features /\ tx.bytes.random = NoRandom) =>
                tx.result = NoRandom

\* an env carrying a random value went to an engine without the Random feature
C31_Witness ==
    /\ RandomSet
    /\ tx.bytes.supported_features = {"NonRandom"}
    /\ tx.bytes.random = SomeRandom(2)
    /\ tx.result = NoRandom

----------------------------------------------------------------------------
(* The used_gas out-parameter *)

\* the amounts of gas an engine reports
GasValues == 0..MaxGas

\* used_gas after the call in `last`, for the amounts given
UsedGas(before, gas_used, refund_cache_gas) ==
    used_gas_after(last.used_gas_writes, before, gas_used, refund_cache_gas)

\* C32: after a successful handle used_gas is the engine's gas used less the
\* refund of the cache flush, and zero when the refund is the larger: it never
\* goes below zero; after a successful init or migrate it is the engine's gas
\* used, with no refund.
C32_UsedGasRefund ==
    (pc = "returned" /\ last.ok) =>
        \A g \in GasValues, refund \in GasValues :
            /\ last.in.op = "handle" =>
                    /\ UsedGas(MaxGas, g, refund) = (IF g > refund THEN g - refund ELSE 0)
                    /\ UsedGas(MaxGas, g, refund) >= 0
            /\ last.in.op \in {"init", "migrate"} => UsedGas(MaxGas, g, refund) = g

\* a handle succeeded whose cache flush refunds more than the engine used
C32_Witness ==
    /\ Returned("handle")
    /\ last.ok
    /\ last.used_gas_writes = << "gas_used", "saturating_sub" >>
    /\ UsedGas(0, 1, 2) = 0
    /\ UsedGas(0, 2, 1) = 1

\* C33: used_gas is written only once the engine entry point has run: a call
\* that fails before the engine is invoked leaves it as it was, and a call
\* whose engine execution returns an error has set it to the engine's gas used.
C33_UsedGasOnlyAfterEngine ==
    (pc = "returned" /\ last.in.op \in EngineOps) =>
        /\ ~Reached(last, "engine_call") =>
                /\ last.used_gas_writes = << >>
                /\ \A b \in GasValues : UsedGas(b, MaxGas, 0) = b
        /\ Reached(last, "engine_call") =>
                /\ last.used_gas_writes # << >>
                /\ last.used_gas_writes[1] = "gas_used"
        /\ last.failed = "engine_call" =>
                /\ last.used_gas_writes = << "gas_used" >>
                /\ \A g \in GasValues : UsedGas(MaxGas, g, 0) = g

\* a query whose engine execution returned an error
C33_Witness ==
    /\ Returned("query")
    /\ last.failed = "engine_call"
    /\ last.used_gas_writes = << "gas_used" >>

----------------------------------------------------------------------------
(* A sender that is not a bech32 address *)

\* C34: a handle call whose sender does not convert goes on, with the empty
\* canonical address in place of the sender in verify_params and in the
\* post-processing of the output; an init, migrate or update_admin call whose
\* sender does not convert fails with FailedToDeserialize.
C34_BadSenderByEntryPoint ==
    (pc = "returned" /\ SenderConversionFailed(last)) =>
        /\ last.in.op = "handle" =>
            /\ last.failed # "to_canonical_sender"
            /\ Reached(last, "verify_params")
            /\ last.vp.sender = EmptyCanonical
            /\ Reached(last, "post_process_output") => last.post_process.sender = EmptyCanonical
        /\ last.in.op \in {"init", "migrate", "update_admin"} =>
            /\ ~last.ok
            /\ last.failed = "to_canonical_sender"
            /\ last.err = "FailedToDeserialize"
            /\ last.vp = NoVerifyParams

\* a handle call whose sender does not convert got to the post-processing of its output
C34_Witness ==
    /\ Returned("handle")
    /\ to_canonical(last.env.sender) = AddrErr
    /\ Reached(last, "post_process_output")
    /\ last.post_process.sender = EmptyCanonical
    /\ last.vp.sender = EmptyCanonical

----------------------------------------------------------------------------
(* migrate: the hardcoded override and the sender *)

\* the call presents the zero sentinel for a contract and an admin the admin table pairs
OverrideApplies(r) ==
    /\ r.in.admin_proof = ZeroProof(HASH_SIZE)
    /\ \E c \in HumanAddrs, u \in HumanAddrs :
            /\ to_canonical(c) = to_canonical(r.env.contract_address)
            /\ to_canonical(c) # AddrErr
            /\ to_canonical(u) = r.in.admin
            /\ Maps(HARDCODED_CONTRACT_ADMINS, c, u)

\* C35: a migrate call that presents the zero sentinel for an allow-listed
\* (contract, admin) pair passes the admin authorization whoever its sender
\* is: the sender's admin proof is not derived or compared, and the call goes
\* on to the parsing of sig_info.
C35_OverrideIgnoresSender ==
    (Returned("migrate") /\ Reached(last, "is_hardcoded_contract_admin") /\ OverrideApplies(last)) =>
        /\ ~Reached(last, "admin_proof_check")
        /\ last.failed # "is_hardcoded_contract_admin"
        /\ Reached(last, "extract_sig_info")
        /\ last.err = "ValidationFailure" => last.failed \in last.in.faults

\* a migrate authorized by the override although its sender is not the admin
\* and the sender's admin proof is not the one presented
C35_Witness ==
    /\ Returned("migrate")
    /\ OverrideApplies(last)
    /\ to_canonical(last.env.sender) # last.in.admin
    /\ ~DerivedProofMatches(last)
    /\ last.ok

----------------------------------------------------------------------------
(* handle: the order of its checks *)

\* the checks of handle, in the order in which they can fail
HandleChecks ==
    << "extract_base_env", "extract_query_depth", "to_canonical_contract", "validate_contract_key",
       "extract_sig_info", "try_from", "parse_message", "verify_params", "validate_msg" >>

\* the checks among the stages of a trace, in the order of the trace
ChecksRun(trace) ==
    LET IsCheck(name) == \E i \in 1..Len(HandleChecks) : HandleChecks[i] = name
    IN  SelectSeq(trace, IsCheck)

\* C36: the checks of handle run in one order: env parsing, conversion of the
\* contract address, contract-key validation, sig_info parsing, recognition
\* of the handle type, message parsing, verify_params, validate_msg, each
\* only after those before it have passed (validate_msg only for an
\* encrypted message). An unrecognized handle-type byte ends the call before
\* the message is parsed or decrypted, and a call with an invalid contract
\* key and an unrecognized handle type reports the contract-key error.
C36_HandleCheckOrder ==
    Returned("handle") =>
        LET run == ChecksRun(last.trace)
        IN  /\ Len(run) <= Len(HandleChecks)
            /\ Len(run) <= Len(HandleChecks) => run = SubSeq(HandleChecks, 1, Len(run))
            /\ \A i \in 1..(Len(run) - 1) : last.failed # run[i]
            /\ (Reached(last, "verify_params") /\ ~Reached(last, "validate_msg")) =>
                    (last.failed = "verify_params" \/ ~last.in.encrypted)
            /\ last.in.handle_type > 10 =>
                    /\ ~Reached(last, "parse_message")
                    /\ ~Reached(last, "decrypt")
                    /\ ~last.ok
            /\ (last.in.handle_type > 10 /\ Reached(last, "validate_contract_key")
                    /\ ~validate_contract_key(last.env, to_canonical(last.env.contract_address),
                                               last.in.code)) =>
                    /\ last.failed = "validate_contract_key"
                    /\ last.err = "ValidationFailure"
                    /\ ~Reached(last, "try_from")

\* a handle call with an invalid contract key and an unrecognized handle type
C36_Witness ==
    /\ Returned("handle")
    /\ last.in.handle_type > 10
    /\ ~validate_contract_key(last.env, to_canonical(last.env.contract_address), last.in.code)
    /\ last.failed = "validate_contract_key"
    /\ last.err = "ValidationFailure"

----------------------------------------------------------------------------
(* AuthInfo::from_bytes *)

RECURSIVE SupportedKeyType(_)
\* the public key is a secp256k1 key, or a legacy-amino multisig key all of
\* whose members are
SupportedKeyType(k) ==
    \/ k.type_url = "/cosmos.crypto.secp256k1.PubKey"
    \/ /\ k.type_url = "/cosmos.crypto.multisig.LegacyAminoPubKey"
       /\ \A i \in 1..Len(k.public_keys) : SupportedKeyType(k.public_keys[i])

RECURSIVE DecodableKey(_)
\* the bytes of the public key and of its members decode
DecodableKey(k) ==
    /\ k.decodes
    /\ \A i \in 1..Len(k.public_keys) : DecodableKey(k.public_keys[i])

RECURSIVE SameKey(_, _)
\* the parsed key is the key on the wire: its type, its key or threshold, and
\* its members one by one
SameKey(parsed, k) ==
    /\ parsed.kind = (IF k.type_url = "/cosmos.crypto.secp256k1.PubKey"
                      THEN "Secp256k1" ELSE "Multisig")
    /\ parsed.key = k.key
    /\ Len(parsed.pubkeys) = Len(k.public_keys)
    /\ \A i \in 1..Len(k.public_keys) : SameKey(parsed.pubkeys[i], k.public_keys[i])

\* AuthInfo::from_bytes has returned
ParsedAuthInfo == tx.parser = "AuthInfo"

\* the signers on the wire
WireSignerInfos == tx.bytes.signer_infos

\* C37: AuthInfo::from_bytes fails with FailedToDeserialize when there is no
\* signer, and when a signer has no public key or a public key that is not a
\* secp256k1 key or a legacy-amino multisig key of such keys, at any depth;
\* when it succeeds its result has one signer per signer on the wire, in the
\* order of the wire, each with the key and the sequence of its wire signer;
\* and it succeeds when the bytes decode and none of these defects is present.
C37_AuthInfoSigners ==
    ParsedAuthInfo =>
        /\ Len(WireSignerInfos) = 0 => tx.result = AuthInfoErr
        /\ (\E i \in 1..Len(WireSignerInfos) :
                \/ ~WireSignerInfos[i].has_public_key
                \/ ~SupportedKeyType(WireSignerInfos[i].public_key)) => tx.result = AuthInfoErr
        /\ tx.result.ok =>
            /\ Len(tx.result.signer_infos) = Len(WireSignerInfos)
            /\ \A i \in 1..Len(WireSignerInfos) :
                /\ SameKey(tx.result.signer_infos[i].public_key, WireSignerInfos[i].public_key)
                /\ tx.result.signer_infos[i].sequence = WireSignerInfos[i].sequence
        /\ (/\ tx.bytes.decodes
            /\ Len(WireSignerInfos) > 0
            /\ \A i \in 1..Len(WireSignerInfos) :
                /\ WireSignerInfos[i].has_public_key
                /\ SupportedKeyType(WireSignerInfos[i].public_key)
                /\ DecodableKey(WireSignerInfos[i].public_key)) => tx.result.ok

\* an auth info was rejected for the unsupported key of a member of a multisig
\* key that is itself a member of the second signer's multisig key
C37_Witness ==
    /\ ParsedAuthInfo
    /\ tx.bytes.decodes
    /\ Len(WireSignerInfos) = 2
    /\ WireSignerInfos[1].public_key.type_url = "/cosmos.crypto.secp256k1.PubKey"
    /\ WireSignerInfos[1].public_key.decodes
    /\ WireSignerInfos[2].has_public_key
    /\ DecodableKey(WireSignerInfos[2].public_key)
    /\ Len(WireSignerInfos[2].public_key.public_keys) = 1
    /\ Len(WireSignerInfos[2].public_key.public_keys[1].public_keys) = 1
    /\ ~SupportedKeyType(WireSignerInfos[2].public_key.public_keys[1].public_keys[1])
    /\ tx.result = AuthInfoErr

----------------------------------------------------------------------------
(* AuthInfo::sender_public_key *)

\* sender_public_key has returned
LookedUpSender == tx.parser = "sender_public_key"

\* signer i has the address looked for
SignerMatches(i) == get_address(tx.bytes.signer_infos[i].public_key) = tx.bytes.sender

\* C38: sender_public_key(sender) returns None exactly when no signer's
\* address is sender, and otherwise the public key of the first signer, in
\* the order of the list, whose address is sender.
C38_FirstMatchingSigner ==
    LookedUpSender =>
        /\ tx.result = NoPubKey <=> \A i \in 1..Len(tx.bytes.signer_infos) : ~SignerMatches(i)
        /\ tx.result # NoPubKey =>
                \E i \in 1..Len(tx.bytes.signer_infos) :
                    /\ SignerMatches(i)
                    /\ \A j \in 1..(i - 1) : ~SignerMatches(j)
                    /\ tx.result = tx.bytes.signer_infos[i].public_key

\* two signers with different keys have the address of the sender, and the
\* key of the first was returned
C38_Witness ==
    /\ LookedUpSender
    /\ Len(tx.bytes.signer_infos) = 2
    /\ SignerMatches(1)
    /\ SignerMatches(2)
    /\ tx.bytes.signer_infos[1].public_key # tx.bytes.signer_infos[2].public_key
    /\ tx.result = tx.bytes.signer_infos[1].public_key

----------------------------------------------------------------------------
(* DirectSdkMsg::sender *)

\* DirectSdkMsg::sender has returned
AskedSender == tx.parser = "DirectSdkMsg::sender"

\* the variants of the CosmWasm messages and of the IBC packet messages
CosmWasmVariants ==
    {"MsgExecuteContract", "MsgInstantiateContract", "MsgMigrateContract", "MsgUpdateAdmin",
     "MsgClearAdmin"}
IbcVariants == {"MsgRecvPacket", "MsgAcknowledgement", "MsgTimeout"}

\* C39: DirectSdkMsg::sender returns Some of the sender of the message exactly
\* for the execute, instantiate, migrate, update-admin and clear-admin
\* messages, and None for the three IBC packet messages and for Other.
C39_SenderOfMessage ==
    AskedSender =>
        /\ tx.bytes.variant \in CosmWasmVariants \cup IbcVariants \cup {"Other"}
        /\ tx.result.some <=> tx.bytes.variant \in CosmWasmVariants
        /\ tx.result.some => tx.result.of = tx.bytes.payload
        /\ tx.bytes.variant \in IbcVariants \cup {"Other"} => tx.result = NoSender

\* the sender of a received packet was asked for, and there is none
C39_Witness ==
    /\ AskedSender
    /\ tx.bytes.variant = "MsgRecvPacket"
    /\ tx.result = NoSender

====
